---- MODULE Spec2Model ----
(***************************************************************************)
(* A4_Utsp property-set validation: the rule engine of                     *)
(* src/src/validation_rules.py, the batch validator of                     *)
(* src/src/validate_utsparinger.py and the inlined copy of both in         *)
(* src/app.py.                                                             *)
(*                                                                         *)
(* Python strings are sequences of one-character strings, so that          *)
(* str.strip(), str.split() and the regular expressions are computed on    *)
(* the characters.  A raw property value is a tagged record (None, str,    *)
(* int, float, bool) and str(value) is computed by PyStr.                  *)
(***************************************************************************)
EXTENDS Integers, Sequences, FiniteSets, TLC

VARIABLES
    pc,         \* position of the modelled call: "input", then what was called
    impl,       \* which copy ran: "none", "batch" (src/src) or "app" (src/app.py)
    in_props,   \* validate_dimensions: the properties dict
    in_value,   \* property validators: the raw value
    in_prefix,  \* validate_id / validate_element: expected_prefix
    result,     \* the ValidationResult returned by the last validator call
    element,    \* validate_element: the IFC element (its IsDefinedBy list)
    ev,         \* the ElementValidation returned by validate_element
    elements,   \* validate_ifc_file: model.by_type("IfcBuildingElementProxy")
    validated,  \* validate_ifc_file: validated_elements
    summary,    \* FileValidation.summary
    filename,   \* extract_file_prefix / validate_ifc_file: the file's name
    temp_files, \* the temporary files of app.py that exist
    ifc_files,  \* main: the IFC files collected from the command line
    main_args,  \* main: args, the parsed switches (no_excel, no_html, no_ifc)
    validations,\* main: the list of FileValidation objects
    events,     \* main: what was loaded, validated and generated, in order
    reports     \* the outputs of the report generators called so far, by generator

vars == <<pc, impl, in_props, in_value, in_prefix, result, element, ev,
          elements, validated, summary, filename, temp_files,
          ifc_files, main_args, validations, events, reports>>

-----------------------------------------------------------------------------
(* Bounds of the model.                                                    *)

\* length of an element's IsDefinedBy list in the association-order inputs
MaxAssoc == 2
\* number of properties by which a property set departs from its base
MaxDev == 1
\* number of elements of a model file
MaxElements == 2
\* largest integer property value drawn
MaxNum == 2

-----------------------------------------------------------------------------
(* Python values and strings.                                              *)

\* None, and the wrappedValue types of an IFC nominal value.  A float is
\* kept in tenths (n = 25 is 2.5); the non-finite floats have their own tags.
None == [t |-> "none", s |-> <<>>, n |-> 0]
VStr(s) == [t |-> "str", s |-> s, n |-> 0]
VInt(n) == [t |-> "int", s |-> <<>>, n |-> n]
VFloat(tenths) == [t |-> "float", s |-> <<>>, n |-> tenths]
VBool(b) == [t |-> "bool", s |-> <<>>, n |-> IF b THEN 1 ELSE 0]
VInf == [t |-> "inf", s |-> <<>>, n |-> 0]
VNaN == [t |-> "nan", s |-> <<>>, n |-> 0]
\* the float -0.0
VNegZero == [t |-> "negzero", s |-> <<>>, n |-> 0]

DigitChars == <<"0", "1", "2", "3", "4", "5", "6", "7", "8", "9">>

RECURSIVE NatStr(_)
NatStr(n) == IF n < 10 THEN <<DigitChars[n + 1]>>
             ELSE NatStr(n \div 10) \o <<DigitChars[(n % 10) + 1]>>

IntStr(n) == IF n < 0 THEN <<"-">> \o NatStr(0 - n) ELSE NatStr(n)

\* repr of a finite float given in tenths: 25 -> "2.5", 0 -> "0.0", -10 -> "-1.0"
FloatStr(tenths) ==
    LET a == IF tenths < 0 THEN 0 - tenths ELSE tenths
    IN  (IF tenths < 0 THEN <<"-">> ELSE <<>>)
        \o NatStr(a \div 10) \o <<".">> \o NatStr(a % 10)

\* str(value)
PyStr(v) ==
    CASE v.t = "str"   -> v.s
      [] v.t = "int"   -> IntStr(v.n)
      [] v.t = "float" -> FloatStr(v.n)
      [] v.t = "bool"  -> IF v.n = 1 THEN <<"T", "r", "u", "e">>
                                     ELSE <<"F", "a", "l", "s", "e">>
      [] v.t = "inf"   -> <<"i", "n", "f">>
      [] v.t = "nan"   -> <<"n", "a", "n">>
      [] v.t = "negzero" -> <<"-", "0", ".", "0">>
      [] v.t = "none"  -> <<"N", "o", "n", "e">>

\* the characters str.strip() removes
Whitespace == {" ", "\t", "\n"}

RECURSIVE LStrip(_)
LStrip(s) == IF s # <<>> /\ Head(s) \in Whitespace THEN LStrip(Tail(s)) ELSE s

RECURSIVE RStrip(_)
RStrip(s) == IF s # <<>> /\ s[Len(s)] \in Whitespace
             THEN RStrip(SubSeq(s, 1, Len(s) - 1)) ELSE s

\* s.strip()
Strip(s) == RStrip(LStrip(s))

\* value is None or str(value).strip() == ""
IsBlank(v) == v = None \/ Strip(PyStr(v)) = <<>>

\* ValidationResult(is_valid, message, severity="error").  The message is its
\* fixed text and the strings formatted into it.
ValidationResult(is_valid, text, args, severity) ==
    [is_valid |-> is_valid, message |-> [text |-> text, args |-> args],
     severity |-> severity]

NoResult == ValidationResult(FALSE, "(no call)", <<>>, "none")

-----------------------------------------------------------------------------
(* Property names.                                                         *)

A4_PREFIX == <<"A", "4", "_", "U", "t", "s", "p", "_">>
REQUIRED_PSET == <<"A", "4", "_", "U", "t", "s", "p">>

P_Kategori == A4_PREFIX \o <<"K", "a", "t", "e", "g", "o", "r", "i">>
P_ID == A4_PREFIX \o <<"I", "D">>
P_Utsparingstype ==
    A4_PREFIX \o <<"U", "t", "s", "p", "a", "r", "i", "n", "g", "s", "t", "y", "p", "e">>
P_Tetting == A4_PREFIX \o <<"T", "e", "t", "t", "i", "n", "g">>
P_Fase == A4_PREFIX \o <<"F", "a", "s", "e">>
P_Status == A4_PREFIX \o <<"S", "t", "a", "t", "u", "s">>
P_Rev == A4_PREFIX \o <<"R", "e", "v">>
P_RevDato == A4_PREFIX \o <<"R", "e", "v", "D", "a", "t", "o">>
P_RevBeskrivelse ==
    A4_PREFIX \o <<"R", "e", "v", "B", "e", "s", "k", "r", "i", "v", "e", "l", "s", "e">>
P_DimBredde == A4_PREFIX \o <<"D", "i", "m", "B", "r", "e", "d", "d", "e">>
P_DimHoyde == A4_PREFIX \o <<"D", "i", "m", "H", "ø", "y", "d", "e">>
P_DimDybde == A4_PREFIX \o <<"D", "i", "m", "D", "y", "b", "d", "e">>
P_DimDiameter == A4_PREFIX \o <<"D", "i", "m", "D", "i", "a", "m", "e", "t", "e", "r">>
P_Funksjon == A4_PREFIX \o <<"F", "u", "n", "k", "s", "j", "o", "n">>

REQUIRED_PROPERTIES ==
    <<P_Kategori, P_ID, P_Utsparingstype, P_Tetting, P_Fase, P_Status,
      P_Rev, P_RevDato, P_RevBeskrivelse>>
DIMENSION_PROPERTIES == <<P_DimBredde, P_DimHoyde, P_DimDybde, P_DimDiameter>>
OPTIONAL_PROPERTIES == <<P_Funksjon>>
ALL_PROPERTIES == REQUIRED_PROPERTIES \o DIMENSION_PROPERTIES \o OPTIONAL_PROPERTIES

Range(f) == {f[i] : i \in DOMAIN f}

\* properties.get(key): None when the key is missing
DictGet(d, key) == IF key \in DOMAIN d THEN d[key] ELSE None

-----------------------------------------------------------------------------
(* validate_dimensions.                                                    *)

has_value_NoZeroFloat(val) ==
    IF val = None THEN FALSE
    ELSE LET val_str == Strip(PyStr(val))
         IN  val_str # <<>> /\ val_str # <<"0">>

has_value(val) ==
    IF val = None THEN FALSE
    ELSE LET val_str == Strip(PyStr(val))
         IN  val_str # <<>> /\ val_str # <<"0">> /\ val_str # <<"0", ".", "0">>

MSG_RECT == "Rektangulær: Bredde og Høyde angitt"
MSG_ROUND == "Rund: Diameter angitt"
MSG_NO_HEIGHT == "Bredde angitt men Høyde mangler"
MSG_NO_WIDTH == "Høyde angitt men Bredde mangler"
MSG_NO_DIMS == "Dimensjoner mangler (enten Bredde+Høyde eller Diameter)"

validate_dimensions_SwappedMissing(properties) ==
    LET has_bredde == has_value(DictGet(properties, P_DimBredde))
        has_hoyde == has_value(DictGet(properties, P_DimHoyde))
        has_diameter == has_value(DictGet(properties, P_DimDiameter))
    IN  IF has_bredde /\ has_hoyde
        THEN ValidationResult(TRUE, MSG_RECT, <<>>, "error")
        ELSE IF has_diameter
        THEN ValidationResult(TRUE, MSG_ROUND, <<>>, "error")
        ELSE IF has_bredde /\ ~has_hoyde
        THEN ValidationResult(FALSE, MSG_NO_WIDTH, <<>>, "error")
        ELSE IF has_hoyde /\ ~has_bredde
        THEN ValidationResult(FALSE, MSG_NO_HEIGHT, <<>>, "error")
        ELSE ValidationResult(FALSE, MSG_NO_DIMS, <<>>, "error")

validate_dimensions_PartialFirst(properties) ==
    LET has_bredde == has_value(DictGet(properties, P_DimBredde))
        has_hoyde == has_value(DictGet(properties, P_DimHoyde))
        has_diameter == has_value(DictGet(properties, P_DimDiameter))
    IN  IF has_bredde /\ has_hoyde
        THEN ValidationResult(TRUE, MSG_RECT, <<>>, "error")
        ELSE IF has_bredde /\ ~has_hoyde
        THEN ValidationResult(FALSE, MSG_NO_HEIGHT, <<>>, "error")
        ELSE IF has_hoyde /\ ~has_bredde
        THEN ValidationResult(FALSE, MSG_NO_WIDTH, <<>>, "error")
        ELSE IF has_diameter
        THEN ValidationResult(TRUE, MSG_ROUND, <<>>, "error")
        ELSE ValidationResult(FALSE, MSG_NO_DIMS, <<>>, "error")

\* validation_rules.validate_dimensions; app.validate_dimensions is the same
\* decision list over the same has_value (DimDybde is read and never used).
validate_dimensions(properties) ==
    LET has_bredde == has_value(DictGet(properties, P_DimBredde))
        has_hoyde == has_value(DictGet(properties, P_DimHoyde))
        has_diameter == has_value(DictGet(properties, P_DimDiameter))
    IN  IF has_bredde /\ has_hoyde
        THEN ValidationResult(TRUE, MSG_RECT, <<>>, "error")
        ELSE IF has_diameter
        THEN ValidationResult(TRUE, MSG_ROUND, <<>>, "error")
        ELSE IF has_bredde /\ ~has_hoyde
        THEN ValidationResult(FALSE, MSG_NO_HEIGHT, <<>>, "error")
        ELSE IF has_hoyde /\ ~has_bredde
        THEN ValidationResult(FALSE, MSG_NO_WIDTH, <<>>, "error")
        ELSE ValidationResult(FALSE, MSG_NO_DIMS, <<>>, "error")

app_validate_dimensions(properties) ==
    IF has_value(DictGet(properties, P_DimBredde))
       /\ has_value(DictGet(properties, P_DimHoyde))
    THEN ValidationResult(TRUE, MSG_RECT, <<>>, "error")
    ELSE IF has_value(DictGet(properties, P_DimDiameter))
    THEN ValidationResult(TRUE, MSG_ROUND, <<>>, "error")
    ELSE IF has_value(DictGet(properties, P_DimBredde))
            /\ ~has_value(DictGet(properties, P_DimHoyde))
    THEN ValidationResult(FALSE, MSG_NO_HEIGHT, <<>>, "error")
    ELSE IF has_value(DictGet(properties, P_DimHoyde))
            /\ ~has_value(DictGet(properties, P_DimBredde))
    THEN ValidationResult(FALSE, MSG_NO_WIDTH, <<>>, "error")
    ELSE ValidationResult(FALSE, MSG_NO_DIMS, <<>>, "error")

-----------------------------------------------------------------------------
(* The regular expressions of the rules, matched on the characters.         *)

UpperChars ==
    {"A", "B", "C", "D", "E", "F", "G", "H", "I", "J", "K", "L", "M", "N",
     "O", "P", "Q", "R", "S", "T", "U", "V", "W", "X", "Y", "Z"}

\* \d of a str pattern matches every Unicode decimal digit; the one character
\* written "U+0663" (ARABIC-INDIC DIGIT THREE) stands for those outside ASCII.
DigitSet == Range(DigitChars) \cup {"U+0663"}

\* the number of consecutive characters of s from position i that are in class
RECURSIVE RunLen(_, _, _)
RunLen(s, i, class) ==
    IF i <= Len(s) /\ s[i] \in class THEN 1 + RunLen(s, i + 1, class) ELSE 0

\* s has the characters of lit at position i
LitAt(s, i, lit) ==
    /\ i + Len(lit) - 1 <= Len(s)
    /\ \A j \in 1..Len(lit) : s[i + j - 1] = lit[j]

\* $ at position i (the next character to read): the end of the string, or
\* just before a newline that ends it
AtEnd(s, i) == i = Len(s) + 1 \/ (i = Len(s) /\ s[i] = "\n")

HULL == <<"_", "H", "u", "l", "l", "-">>

ID_PATTERN_match_UpTo5(s) ==
    \E k \in 2..5 :
        /\ RunLen(s, 1, UpperChars) >= k
        /\ LitAt(s, k + 1, HULL)
        /\ LET d == RunLen(s, k + 1 + Len(HULL), DigitSet)
           IN  d >= 1 /\ AtEnd(s, k + 1 + Len(HULL) + d)

\* ID_PATTERN.match(s) is not None, ID_PATTERN = ^[A-Z]{2,4}_Hull-\d+$
ID_PATTERN_match(s) ==
    \E k \in 2..4 :
        /\ RunLen(s, 1, UpperChars) >= k
        /\ LitAt(s, k + 1, HULL)
        /\ LET d == RunLen(s, k + 1 + Len(HULL), DigitSet)
           IN  d >= 1 /\ AtEnd(s, k + 1 + Len(HULL) + d)

\* DATE_PATTERN.match(s) is not None, DATE_PATTERN = ^\d{2}\.\d{2}\.\d{4}$
DATE_PATTERN_match(s) ==
    /\ Len(s) >= 10
    /\ \A i \in {1, 2, 4, 5, 7, 8, 9, 10} : s[i] \in DigitSet
    /\ s[3] = "." /\ s[6] = "."
    /\ AtEnd(s, 11)

\* REV_PATTERN.match(s) is not None, REV_PATTERN = ^\d+$
REV_PATTERN_match(s) ==
    LET d == RunLen(s, 1, DigitSet) IN d >= 1 /\ AtEnd(s, d + 1)

\* s.split('_')[0]: the characters before the first underscore
RECURSIVE SplitFirst(_, _)
SplitFirst(s, sep) ==
    IF s = <<>> \/ Head(s) = sep THEN <<>>
    ELSE <<Head(s)>> \o SplitFirst(Tail(s), sep)

\* s.split(','): the comma-separated pieces, in order
RECURSIVE Split(_, _)
Split(s, sep) ==
    LET first == SplitFirst(s, sep)
    IN  IF Len(first) = Len(s) THEN <<first>>
        ELSE <<first>> \o Split(SubSeq(s, Len(first) + 2, Len(s)), sep)

-----------------------------------------------------------------------------
(* The property validators of validation_rules.py.                         *)

VALID_KATEGORI == {<<"P", "r", "o", "v", "i", "s", "i", "o", "n", "F", "o", "r", "V", "o", "i", "d">>}
VALID_UTSPARINGSTYPE_PREFERRED == {<<"U", "t", "s", "p", "a", "r", "i", "n", "g">>, <<"H", "u", "l", "l", "t", "a", "k", "i", "n", "g">>}
S_Innstopningsgods == <<"I", "n", "n", "s", "t", "ø", "p", "n", "i", "n", "g", "s", "g", "o", "d", "s">>
VALID_TETTING_STR == {<<"J", "a">>, <<"N", "e", "i">>}
VALID_FASE == {<<"F", "a", "s", "e", " ", "1">>, <<"F", "a", "s", "e", " ", "2">>}
VALID_STATUS == {<<"G", "o", "d", "k", "j", "e", "n", "t">>, <<"I", "k", "k", "e", " ", "g", "o", "d", "k", "j", "e", "n", "t">>, <<"B", "e", "h", "a", "n", "d", "l", "e", "s", " ", "a", "v", " ", "R", "I", "B">>}
VALID_FUNKSJON == {<<"B", "æ", "r", "i", "n", "g">>, <<"V", "a", "n", "n", "t", "e", "t", "t", "i", "n", "g">>, <<"B", "r", "a", "n", "n">>, <<"L", "y", "d">>}

OK_RESULT == ValidationResult(TRUE, "OK", <<>>, "error")

validate_kategori(value) ==
    IF IsBlank(value)
    THEN ValidationResult(FALSE, "Kategori mangler", <<>>, "error")
    ELSE IF PyStr(value) \in VALID_KATEGORI
    THEN OK_RESULT
    ELSE ValidationResult(FALSE, "Ugyldig kategori: '{value}' (forventet: ProvisionForVoid)",
                          <<PyStr(value)>>, "error")

\* expected_prefix is None or a string; `if expected_prefix:` is false for
\* None and for the empty string
PrefixGiven(expected_prefix) == expected_prefix # None /\ expected_prefix.s # <<>>

validate_id_NoStrip(value, expected_prefix) ==
    IF IsBlank(value)
    THEN ValidationResult(FALSE, "ID mangler", <<>>, "error")
    ELSE LET val_str == PyStr(value)
             prefix == SplitFirst(val_str, "_")
         IN  IF ~ID_PATTERN_match(val_str)
             THEN ValidationResult(FALSE, "Ugyldig ID-format: '{val_str}' (forventet: XXX_Hull-nn)",
                                   <<val_str>>, "error")
             ELSE IF PrefixGiven(expected_prefix) /\ prefix # expected_prefix.s
             THEN ValidationResult(FALSE, "ID-prefiks '{prefix}' matcher ikke forventet '{expected_prefix}'",
                                   <<prefix, expected_prefix.s>>, "warning")
             ELSE OK_RESULT

validate_id_MismatchIsError(value, expected_prefix) ==
    IF IsBlank(value)
    THEN ValidationResult(FALSE, "ID mangler", <<>>, "error")
    ELSE LET val_str == Strip(PyStr(value))
             prefix == SplitFirst(val_str, "_")
         IN  IF ~ID_PATTERN_match(val_str)
             THEN ValidationResult(FALSE, "Ugyldig ID-format: '{val_str}' (forventet: XXX_Hull-nn)",
                                   <<val_str>>, "error")
             ELSE IF PrefixGiven(expected_prefix) /\ prefix # expected_prefix.s
             THEN ValidationResult(FALSE, "ID-prefiks '{prefix}' matcher ikke forventet '{expected_prefix}'",
                                   <<prefix, expected_prefix.s>>, "error")
             ELSE OK_RESULT

validate_id(value, expected_prefix) ==
    IF IsBlank(value)
    THEN ValidationResult(FALSE, "ID mangler", <<>>, "error")
    ELSE LET val_str == Strip(PyStr(value))
             prefix == SplitFirst(val_str, "_")
         IN  IF ~ID_PATTERN_match(val_str)
             THEN ValidationResult(FALSE, "Ugyldig ID-format: '{val_str}' (forventet: XXX_Hull-nn)",
                                   <<val_str>>, "error")
             ELSE IF PrefixGiven(expected_prefix) /\ prefix # expected_prefix.s
             THEN ValidationResult(FALSE, "ID-prefiks '{prefix}' matcher ikke forventet '{expected_prefix}'",
                                   <<prefix, expected_prefix.s>>, "warning")
             ELSE OK_RESULT

validate_utsparingstype_NoWarning(value) ==
    IF IsBlank(value)
    THEN ValidationResult(FALSE, "Utsparingstype mangler", <<>>, "error")
    ELSE LET val_str == Strip(PyStr(value))
         IN  IF val_str \in VALID_UTSPARINGSTYPE_PREFERRED \cup {S_Innstopningsgods}
             THEN OK_RESULT
             ELSE ValidationResult(FALSE, "Ugyldig utsparingstype: '{val_str}'",
                                   <<val_str>>, "error")

validate_utsparingstype(value) ==
    IF IsBlank(value)
    THEN ValidationResult(FALSE, "Utsparingstype mangler", <<>>, "error")
    ELSE LET val_str == Strip(PyStr(value))
         IN  IF val_str \in VALID_UTSPARINGSTYPE_PREFERRED
             THEN OK_RESULT
             ELSE IF val_str = S_Innstopningsgods
             THEN ValidationResult(TRUE, "Innstøpningsgods skal normalt ikke være i utsparings-IFC",
                                   <<>>, "warning")
             ELSE ValidationResult(FALSE, "Ugyldig utsparingstype: '{val_str}'",
                                   <<val_str>>, "error")

validate_tetting_NumbersAsBool(value) ==
    IF value = None
    THEN ValidationResult(FALSE, "Tetting mangler", <<>>, "error")
    ELSE IF value.t \in {"bool", "int"}
    THEN OK_RESULT
    ELSE IF Strip(PyStr(value)) = <<>>
    THEN ValidationResult(FALSE, "Tetting mangler", <<>>, "error")
    ELSE IF Strip(PyStr(value)) \in VALID_TETTING_STR
    THEN OK_RESULT
    ELSE ValidationResult(FALSE, "Ugyldig tetting-verdi: '{value}' (forventet: Ja/Nei eller True/False)",
                          <<PyStr(value)>>, "error")

validate_tetting(value) ==
    IF value = None
    THEN ValidationResult(FALSE, "Tetting mangler", <<>>, "error")
    ELSE IF value.t = "bool"
    THEN OK_RESULT
    ELSE LET val_str == Strip(PyStr(value))
         IN  IF val_str = <<>>
             THEN ValidationResult(FALSE, "Tetting mangler", <<>>, "error")
             ELSE IF val_str \in VALID_TETTING_STR
             THEN OK_RESULT
             ELSE ValidationResult(FALSE, "Ugyldig tetting-verdi: '{value}' (forventet: Ja/Nei eller True/False)",
                                   <<PyStr(value)>>, "error")

\* ', '.join(strings)
RECURSIVE JoinCommaSpace(_)
JoinCommaSpace(strings) ==
    IF strings = <<>> THEN <<>>
    ELSE IF Len(strings) = 1 THEN strings[1]
    ELSE strings[1] \o <<",", " ">> \o JoinCommaSpace(Tail(strings))

\* [v for v in values if v and v not in VALID_FUNKSJON]
RECURSIVE InvalidFunksjon(_)
InvalidFunksjon(values) ==
    IF values = <<>> THEN <<>>
    ELSE (IF Head(values) # <<>> /\ Head(values) \notin VALID_FUNKSJON
          THEN <<Head(values)>> ELSE <<>>) \o InvalidFunksjon(Tail(values))

validate_funksjon_NoTokenTrim(value) ==
    IF IsBlank(value)
    THEN ValidationResult(TRUE, "Funksjon ikke angitt (valgfritt)", <<>>, "info")
    ELSE IF InvalidFunksjon(Split(Strip(PyStr(value)), ",")) # <<>>
    THEN ValidationResult(TRUE, "Ukjent funksjon: {invalid_values}",
                          <<JoinCommaSpace(InvalidFunksjon(Split(Strip(PyStr(value)), ",")))>>, "warning")
    ELSE OK_RESULT

validate_funksjon(value) ==
    IF IsBlank(value)
    THEN ValidationResult(TRUE, "Funksjon ikke angitt (valgfritt)", <<>>, "info")
    ELSE LET val_str == Strip(PyStr(value))
             pieces == Split(val_str, ",")
             values == [i \in DOMAIN pieces |-> Strip(pieces[i])]
             invalid_values == InvalidFunksjon(values)
         IN  IF invalid_values # <<>>
             THEN ValidationResult(TRUE, "Ukjent funksjon: {invalid_values}",
                                   <<JoinCommaSpace(invalid_values)>>, "warning")
             ELSE OK_RESULT

validate_fase(value) ==
    IF IsBlank(value)
    THEN ValidationResult(FALSE, "Fase mangler", <<>>, "error")
    ELSE LET val_str == Strip(PyStr(value))
         IN  IF val_str \in VALID_FASE
             THEN OK_RESULT
             ELSE ValidationResult(FALSE, "Ugyldig fase: '{val_str}' (forventet: Fase 1 eller Fase 2)",
                                   <<val_str>>, "error")

validate_status(value) ==
    IF IsBlank(value)
    THEN ValidationResult(FALSE, "Status mangler", <<>>, "error")
    ELSE LET val_str == Strip(PyStr(value))
         IN  IF val_str \in VALID_STATUS
             THEN OK_RESULT
             ELSE ValidationResult(FALSE, "Ugyldig status: '{val_str}'", <<val_str>>, "error")

\* str.lower() on the letters of "inf", "infinity" and "nan"
LowerChar(c) ==
    CASE c = "I" -> "i" [] c = "N" -> "n" [] c = "F" -> "f" [] c = "A" -> "a"
      [] c = "T" -> "t" [] c = "Y" -> "y" [] OTHER -> c

Lower(s) == [i \in DOMAIN s |-> LowerChar(s[i])]

\* float(s) for a string: surrounding whitespace and a sign are dropped, then
\* inf / infinity / nan in any case, or digits with an optional fraction.
\* kind is "fin", "inf", "nan" or "ValueError"; for "fin", neg is the sign and
\* zero_int says that the integer part is 0.  (The strings drawn hold no
\* exponent and no digit-group underscore.)
ParseFloat(s) ==
    LET t == Strip(s)
        signed == t # <<>> /\ t[1] \in {"+", "-"}
        neg == t # <<>> /\ t[1] = "-"
        r == IF signed THEN Tail(t) ELSE t
        d1 == RunLen(r, 1, DigitSet)
        dot == d1 + 1 <= Len(r) /\ r[d1 + 1] = "."
        d2 == IF dot THEN RunLen(r, d1 + 2, DigitSet) ELSE 0
        used == d1 + (IF dot THEN 1 + d2 ELSE 0)
    IN  IF Lower(r) \in {<<"i", "n", "f">>, <<"i", "n", "f", "i", "n", "i", "t", "y">>}
        THEN [kind |-> "inf", neg |-> neg, zero_int |-> FALSE]
        ELSE IF Lower(r) = <<"n", "a", "n">>
        THEN [kind |-> "nan", neg |-> neg, zero_int |-> FALSE]
        ELSE IF d1 + d2 >= 1 /\ used = Len(r)
        THEN [kind |-> "fin", neg |-> neg,
              zero_int |-> \A i \in 1..d1 : r[i] = "0"]
        ELSE [kind |-> "ValueError", neg |-> FALSE, zero_int |-> FALSE]

\* float(value)
PyFloat(value) ==
    CASE value.t = "str"   -> ParseFloat(value.s)
      [] value.t = "int"   -> [kind |-> "fin", neg |-> value.n < 0, zero_int |-> value.n = 0]
      [] value.t = "float" -> [kind |-> "fin", neg |-> value.n < 0,
                               zero_int |-> value.n > -10 /\ value.n < 10]
      [] value.t = "bool"  -> [kind |-> "fin", neg |-> FALSE, zero_int |-> value.n = 0]
      [] value.t = "inf"   -> [kind |-> "inf", neg |-> FALSE, zero_int |-> FALSE]
      [] value.t = "nan"   -> [kind |-> "nan", neg |-> FALSE, zero_int |-> FALSE]
      [] value.t = "negzero" -> [kind |-> "fin", neg |-> TRUE, zero_int |-> TRUE]
      [] OTHER             -> [kind |-> "TypeError", neg |-> FALSE, zero_int |-> FALSE]

\* int(float(value)): "nonneg" or "neg" for the truncated integer, or the
\* exception raised: float() raises ValueError (TypeError for None), int()
\* raises ValueError for a NaN and OverflowError for an infinity
IntOfFloat(value) ==
    LET f == PyFloat(value)
    IN  CASE f.kind = "fin" -> (IF f.neg /\ ~f.zero_int THEN "neg" ELSE "nonneg")
          [] f.kind = "inf" -> "OverflowError"
          [] f.kind = "nan" -> "ValueError"
          [] OTHER          -> f.kind

\* an exception that leaves a validator: no ValidationResult is returned
Raised(exception) == ValidationResult(FALSE, exception, <<>>, "raised")

validate_rev_PatternOnly(value) ==
    IF value = None
    THEN ValidationResult(FALSE, "Revisjon mangler", <<>>, "error")
    ELSE IF Strip(PyStr(value)) = <<>>
    THEN ValidationResult(FALSE, "Revisjon mangler", <<>>, "error")
    ELSE IF REV_PATTERN_match(Strip(PyStr(value)))
    THEN OK_RESULT
    ELSE ValidationResult(FALSE, "Ugyldig revisjonsnummer: '{value}' (forventet: 0, 1, 2, ...)",
                          <<PyStr(value)>>, "error")

validate_rev(value) ==
    IF value = None
    THEN ValidationResult(FALSE, "Revisjon mangler", <<>>, "error")
    ELSE LET val_str == Strip(PyStr(value))
             rev_num == IntOfFloat(value)
         IN  IF val_str = <<>>
             THEN ValidationResult(FALSE, "Revisjon mangler", <<>>, "error")
             ELSE IF REV_PATTERN_match(val_str)
             THEN OK_RESULT
             ELSE IF rev_num = "nonneg"
             THEN OK_RESULT
             ELSE IF rev_num \notin {"neg", "ValueError", "TypeError"}
             THEN Raised(rev_num)
             ELSE ValidationResult(FALSE, "Ugyldig revisjonsnummer: '{value}' (forventet: 0, 1, 2, ...)",
                                   <<PyStr(value)>>, "error")

validate_rev_dato(value) ==
    IF IsBlank(value)
    THEN ValidationResult(FALSE, "Revisjonsdato mangler", <<>>, "error")
    ELSE LET val_str == Strip(PyStr(value))
         IN  IF DATE_PATTERN_match(val_str)
             THEN OK_RESULT
             ELSE ValidationResult(FALSE, "Ugyldig datoformat: '{val_str}' (forventet: DD.MM.YYYY)",
                                   <<val_str>>, "error")

validate_rev_beskrivelse(value) ==
    IF IsBlank(value)
    THEN ValidationResult(FALSE, "Revisjonsbeskrivelse mangler", <<>>, "error")
    ELSE OK_RESULT

-----------------------------------------------------------------------------
(* The property validators inlined in app.py.                              *)

app_validate_kategori(value) ==
    IF IsBlank(value)
    THEN ValidationResult(FALSE, "Kategori mangler", <<>>, "error")
    ELSE IF PyStr(value) \in VALID_KATEGORI
    THEN OK_RESULT
    ELSE ValidationResult(FALSE, "Ugyldig kategori: '{value}'", <<PyStr(value)>>, "error")

app_validate_id(value, expected_prefix) ==
    IF IsBlank(value)
    THEN ValidationResult(FALSE, "ID mangler", <<>>, "error")
    ELSE LET val_str == Strip(PyStr(value))
             prefix == SplitFirst(val_str, "_")
         IN  IF ~ID_PATTERN_match(val_str)
             THEN ValidationResult(FALSE, "Ugyldig ID-format: '{val_str}'", <<val_str>>, "error")
             ELSE IF PrefixGiven(expected_prefix) /\ prefix # expected_prefix.s
             THEN ValidationResult(TRUE, "ID-prefiks '{prefix}' != '{expected_prefix}'",
                                   <<prefix, expected_prefix.s>>, "warning")
             ELSE OK_RESULT

app_validate_utsparingstype(value) ==
    IF IsBlank(value)
    THEN ValidationResult(FALSE, "Utsparingstype mangler", <<>>, "error")
    ELSE LET val_str == Strip(PyStr(value))
         IN  IF val_str \in {<<"U", "t", "s", "p", "a", "r", "i", "n", "g">>, <<"H", "u", "l", "l", "t", "a", "k", "i", "n", "g">>}
             THEN OK_RESULT
             ELSE IF val_str = S_Innstopningsgods
             THEN ValidationResult(TRUE, "Innstøpningsgods - skal normalt ikke være i utsparings-IFC",
                                   <<>>, "warning")
             ELSE ValidationResult(FALSE, "Ugyldig utsparingstype: '{val_str}'",
                                   <<val_str>>, "error")

app_validate_tetting(value) ==
    IF value = None
    THEN ValidationResult(FALSE, "Tetting mangler", <<>>, "error")
    ELSE IF value.t = "bool"
    THEN OK_RESULT
    ELSE LET val_str == Strip(PyStr(value))
         IN  IF val_str = <<>>
             THEN ValidationResult(FALSE, "Tetting mangler", <<>>, "error")
             ELSE IF val_str \in VALID_TETTING_STR
             THEN OK_RESULT
             ELSE ValidationResult(FALSE, "Ugyldig tetting-verdi: '{value}'",
                                   <<PyStr(value)>>, "error")

app_validate_funksjon(value) ==
    IF IsBlank(value)
    THEN ValidationResult(TRUE, "Funksjon ikke angitt (valgfritt)", <<>>, "info")
    ELSE LET val_str == Strip(PyStr(value))
             pieces == Split(val_str, ",")
             values == [i \in DOMAIN pieces |-> Strip(pieces[i])]
             invalid == InvalidFunksjon(values)
         IN  IF invalid # <<>>
             THEN ValidationResult(TRUE, "Ukjent funksjon: {invalid}",
                                   <<JoinCommaSpace(invalid)>>, "warning")
             ELSE OK_RESULT

app_validate_fase(value) ==
    IF IsBlank(value)
    THEN ValidationResult(FALSE, "Fase mangler", <<>>, "error")
    ELSE IF Strip(PyStr(value)) \in VALID_FASE
    THEN OK_RESULT
    ELSE ValidationResult(FALSE, "Ugyldig fase: '{value}'", <<PyStr(value)>>, "error")

app_validate_status(value) ==
    IF IsBlank(value)
    THEN ValidationResult(FALSE, "Status mangler", <<>>, "error")
    ELSE IF Strip(PyStr(value)) \in VALID_STATUS
    THEN OK_RESULT
    ELSE ValidationResult(FALSE, "Ugyldig status: '{value}'", <<PyStr(value)>>, "error")

app_validate_rev(value) ==
    IF value = None
    THEN ValidationResult(FALSE, "Revisjon mangler", <<>>, "error")
    ELSE LET val_str == Strip(PyStr(value))
             rev_num == IntOfFloat(value)
         IN  IF val_str = <<>>
             THEN ValidationResult(FALSE, "Revisjon mangler", <<>>, "error")
             ELSE IF REV_PATTERN_match(val_str)
             THEN OK_RESULT
             ELSE IF rev_num = "nonneg"
             THEN OK_RESULT
             ELSE IF rev_num \notin {"neg", "ValueError", "TypeError"}
             THEN Raised(rev_num)
             ELSE ValidationResult(FALSE, "Ugyldig revisjonsnummer: '{value}'",
                                   <<PyStr(value)>>, "error")

app_validate_rev_dato(value) ==
    IF IsBlank(value)
    THEN ValidationResult(FALSE, "Revisjonsdato mangler", <<>>, "error")
    ELSE IF DATE_PATTERN_match(Strip(PyStr(value)))
    THEN OK_RESULT
    ELSE ValidationResult(FALSE, "Ugyldig datoformat: '{value}' (forventet: DD.MM.YYYY)",
                          <<PyStr(value)>>, "error")

app_validate_rev_beskrivelse(value) ==
    IF IsBlank(value)
    THEN ValidationResult(FALSE, "Revisjonsbeskrivelse mangler", <<>>, "error")
    ELSE OK_RESULT

-----------------------------------------------------------------------------
(* Elements and get_element_properties.                                    *)
(*                                                                         *)
(* An element is its GlobalId and its IsDefinedBy list.  A definition is   *)
(* [is_a, RelatingPropertyDefinition]; a property definition is            *)
(* [is_a, Name, HasProperties]; a property is [Name, NominalValue], with   *)
(* NominalValue the wrapped value or None when the property has none.      *)

\* properties[prop_name] = value
DictSet(d, key, value) == (key :> value) @@ d

EmptyDict == [k \in {} |-> None]

\* prop_name.startswith("A4_Utsp_")
StartsWithA4(prop_name) == LitAt(prop_name, 1, A4_PREFIX)

InSeq(x, seq) == \E i \in DOMAIN seq : seq[i] = x

\* f"{pset_name} (feil plassering)"
WrongLocation(pset_name) == pset_name \o <<" ", "(", "f", "e", "i", "l", " ", "p", "l", "a", "s", "s", "e", "r", "i", "n", "g", ")">>

RECURSIVE ExtractValues_FirstWins(_, _)
ExtractValues_FirstWins(props, properties) ==
    IF props = <<>> THEN properties
    ELSE ExtractValues_FirstWins(Tail(props),
             IF (StartsWithA4(Head(props).Name) \/ InSeq(Head(props).Name, ALL_PROPERTIES))
                /\ Head(props).Name \notin DOMAIN properties
             THEN DictSet(properties, Head(props).Name, Head(props).NominalValue)
             ELSE properties)

\* the inner loop without the test of the property's name
RECURSIVE ExtractValues_NoFilter(_, _)
ExtractValues_NoFilter(props, properties) ==
    IF props = <<>> THEN properties
    ELSE ExtractValues_NoFilter(Tail(props),
             DictSet(properties, Head(props).Name, Head(props).NominalValue))

\* the inner loop: the values of the A4_Utsp_ and known properties of one
\* property set, written into the dict in order
RECURSIVE ExtractValues(_, _)
ExtractValues(props, properties) ==
    IF props = <<>> THEN properties
    ELSE LET prop == Head(props)
         IN  ExtractValues(Tail(props),
                 IF StartsWithA4(prop.Name) \/ InSeq(prop.Name, ALL_PROPERTIES)
                 THEN DictSet(properties, prop.Name, prop.NominalValue)
                 ELSE properties)

ExtractStep_LastWrongWins(definition, acc) ==
    LET prop_def == definition.RelatingPropertyDefinition
        pset_name == prop_def.Name
    IN  IF definition.is_a # "IfcRelDefinesByProperties" THEN acc
        ELSE IF prop_def.is_a # "IfcPropertySet" THEN acc
        ELSE [pset_name_found |->
                 IF pset_name = REQUIRED_PSET THEN VStr(REQUIRED_PSET)
                 ELSE IF \E i \in DOMAIN prop_def.HasProperties :
                             StartsWithA4(prop_def.HasProperties[i].Name)
                 THEN VStr(WrongLocation(pset_name))
                 ELSE acc.pset_name_found,
              properties |-> ExtractValues(prop_def.HasProperties, acc.properties),
              all_pset_names |-> Append(acc.all_pset_names, pset_name)]

ExtractStep_StopsWhenFound(definition, acc) ==
    LET prop_def == definition.RelatingPropertyDefinition
        pset_name == prop_def.Name
    IN  IF definition.is_a # "IfcRelDefinesByProperties" THEN acc
        ELSE IF prop_def.is_a # "IfcPropertySet" THEN acc
        ELSE IF acc.pset_name_found # None THEN acc
        ELSE [pset_name_found |->
                 IF pset_name = REQUIRED_PSET THEN VStr(REQUIRED_PSET)
                 ELSE IF \E i \in DOMAIN prop_def.HasProperties :
                             StartsWithA4(prop_def.HasProperties[i].Name)
                 THEN VStr(WrongLocation(pset_name))
                 ELSE acc.pset_name_found,
              properties |-> ExtractValues(prop_def.HasProperties, acc.properties),
              all_pset_names |-> Append(acc.all_pset_names, pset_name)]

\* one pass of `for definition in element.IsDefinedBy`
ExtractStep(definition, acc) ==
    LET prop_def == definition.RelatingPropertyDefinition
        pset_name == prop_def.Name
    IN  IF definition.is_a # "IfcRelDefinesByProperties" THEN acc
        ELSE IF prop_def.is_a # "IfcPropertySet" THEN acc
        ELSE [pset_name_found |->
                 IF pset_name = REQUIRED_PSET THEN VStr(REQUIRED_PSET)
                 ELSE IF \E i \in DOMAIN prop_def.HasProperties :
                             StartsWithA4(prop_def.HasProperties[i].Name)
                 THEN (IF acc.pset_name_found = None
                       THEN VStr(WrongLocation(pset_name))
                       ELSE acc.pset_name_found)
                 ELSE acc.pset_name_found,
              properties |-> ExtractValues(prop_def.HasProperties, acc.properties),
              all_pset_names |-> Append(acc.all_pset_names, pset_name)]

RECURSIVE ExtractLoop(_, _)
ExtractLoop(definitions, acc) ==
    IF definitions = <<>> THEN acc
    ELSE ExtractLoop(Tail(definitions), ExtractStep(Head(definitions), acc))

get_element_properties_FirstSetOnly(elem) ==
    IF elem.IsDefinedBy = <<>>
    THEN [pset_name_found |-> None, properties |-> EmptyDict, all_pset_names |-> <<>>]
    ELSE ExtractLoop(<<Head(elem.IsDefinedBy)>>,
             [pset_name_found |-> None, properties |-> EmptyDict, all_pset_names |-> <<>>])

\* get_element_properties, the same text in both files: the tuple
\* (pset_name_found, properties, all_pset_names)
get_element_properties(elem) ==
    IF elem.IsDefinedBy = <<>>
    THEN [pset_name_found |-> None, properties |-> EmptyDict, all_pset_names |-> <<>>]
    ELSE ExtractLoop(elem.IsDefinedBy,
             [pset_name_found |-> None, properties |-> EmptyDict, all_pset_names |-> <<>>])

-----------------------------------------------------------------------------
(* validate_element.                                                       *)

\* PROPERTY_VALIDATORS, the dict of validators (validate_id takes its
\* expected_prefix default, None, when called through it)
ValidatorNames ==
    {P_Kategori, P_ID, P_Utsparingstype, P_Tetting, P_Funksjon, P_Fase,
     P_Status, P_Rev, P_RevDato, P_RevBeskrivelse}

PROPERTY_VALIDATORS(prop_name, value) ==
    CASE prop_name = P_Kategori        -> validate_kategori(value)
      [] prop_name = P_ID              -> validate_id(value, None)
      [] prop_name = P_Utsparingstype  -> validate_utsparingstype(value)
      [] prop_name = P_Tetting         -> validate_tetting(value)
      [] prop_name = P_Funksjon        -> validate_funksjon(value)
      [] prop_name = P_Fase            -> validate_fase(value)
      [] prop_name = P_Status          -> validate_status(value)
      [] prop_name = P_Rev             -> validate_rev(value)
      [] prop_name = P_RevDato         -> validate_rev_dato(value)
      [] prop_name = P_RevBeskrivelse  -> validate_rev_beskrivelse(value)

app_PROPERTY_VALIDATORS(prop_name, value) ==
    CASE prop_name = P_Kategori        -> app_validate_kategori(value)
      [] prop_name = P_ID              -> app_validate_id(value, None)
      [] prop_name = P_Utsparingstype  -> app_validate_utsparingstype(value)
      [] prop_name = P_Tetting         -> app_validate_tetting(value)
      [] prop_name = P_Funksjon        -> app_validate_funksjon(value)
      [] prop_name = P_Fase            -> app_validate_fase(value)
      [] prop_name = P_Status          -> app_validate_status(value)
      [] prop_name = P_Rev             -> app_validate_rev(value)
      [] prop_name = P_RevDato         -> app_validate_rev_dato(value)
      [] prop_name = P_RevBeskrivelse  -> app_validate_rev_beskrivelse(value)

\* the result of one required property: its validator, or the presence check
\* of a property that has none
RequiredResult(prop_name, value, expected_prefix) ==
    IF prop_name \in ValidatorNames
    THEN IF prop_name = P_ID THEN validate_id(value, expected_prefix)
         ELSE PROPERTY_VALIDATORS(prop_name, value)
    ELSE IF IsBlank(value)
    THEN ValidationResult(FALSE, "Mangler verdi", <<>>, "error")
    ELSE OK_RESULT

app_RequiredResult(prop_name, value, expected_prefix) ==
    IF prop_name \in ValidatorNames
    THEN IF prop_name = P_ID THEN app_validate_id(value, expected_prefix)
         ELSE app_PROPERTY_VALIDATORS(prop_name, value)
    ELSE IF IsBlank(value)
    THEN ValidationResult(FALSE, "Mangler verdi", <<>>, "error")
    ELSE OK_RESULT

Tally_WarningNeedsInvalid(res, acc) ==
    [acc EXCEPT
        !.error_count = IF ~res.is_valid /\ res.severity = "error" THEN @ + 1 ELSE @,
        !.warning_count = IF ~res.is_valid /\ res.severity = "warning" THEN @ + 1 ELSE @]

\* the counting of one required property's result:
\*   if not result.is_valid: error -> error_count, warning -> warning_count
\*   elif result.severity == "warning": warning_count
Tally(res, acc) ==
    IF ~res.is_valid
    THEN IF res.severity = "error"
         THEN [acc EXCEPT !.error_count = @ + 1]
         ELSE IF res.severity = "warning"
         THEN [acc EXCEPT !.warning_count = @ + 1]
         ELSE acc
    ELSE IF res.severity = "warning"
    THEN [acc EXCEPT !.warning_count = @ + 1]
    ELSE acc

\* `for prop_name in REQUIRED_PROPERTIES`, from index i on; acc holds
\* property_validations, error_count and warning_count
RECURSIVE RequiredLoop(_, _, _, _)
RequiredLoop(i, properties, expected_prefix, acc) ==
    IF i > Len(REQUIRED_PROPERTIES) THEN acc
    ELSE LET prop_name == REQUIRED_PROPERTIES[i]
             res == RequiredResult(prop_name, DictGet(properties, prop_name), expected_prefix)
         IN  RequiredLoop(i + 1, properties, expected_prefix,
                 Tally(res, [acc EXCEPT !.property_validations =
                                 DictSet(@, prop_name, res)]))

RECURSIVE app_RequiredLoop(_, _, _, _)
app_RequiredLoop(i, properties, expected_prefix, acc) ==
    IF i > Len(REQUIRED_PROPERTIES) THEN acc
    ELSE LET prop_name == REQUIRED_PROPERTIES[i]
             res == app_RequiredResult(prop_name, DictGet(properties, prop_name), expected_prefix)
         IN  app_RequiredLoop(i + 1, properties, expected_prefix,
                 Tally(res, [acc EXCEPT !.property_validations =
                                 DictSet(@, prop_name, res)]))

RECURSIVE OptionalLoop_ValidatesAbsent(_, _, _)
OptionalLoop_ValidatesAbsent(i, properties, acc) ==
    IF i > Len(OPTIONAL_PROPERTIES) THEN acc
    ELSE LET prop_name == OPTIONAL_PROPERTIES[i]
             res == PROPERTY_VALIDATORS(prop_name, DictGet(properties, prop_name))
         IN  OptionalLoop_ValidatesAbsent(i + 1, properties,
                 [acc EXCEPT
                     !.property_validations = DictSet(@, prop_name, res),
                     !.warning_count = IF res.severity = "warning" THEN @ + 1 ELSE @])

\* `for prop_name in OPTIONAL_PROPERTIES`: only a property present in the dict
RECURSIVE OptionalLoop(_, _, _)
OptionalLoop(i, properties, acc) ==
    IF i > Len(OPTIONAL_PROPERTIES) THEN acc
    ELSE LET prop_name == OPTIONAL_PROPERTIES[i]
             res == PROPERTY_VALIDATORS(prop_name, properties[prop_name])
         IN  OptionalLoop(i + 1, properties,
                 IF prop_name \in DOMAIN properties /\ prop_name \in ValidatorNames
                 THEN [acc EXCEPT
                          !.property_validations = DictSet(@, prop_name, res),
                          !.warning_count = IF res.severity = "warning" THEN @ + 1 ELSE @]
                 ELSE acc)

RECURSIVE app_OptionalLoop(_, _, _)
app_OptionalLoop(i, properties, acc) ==
    IF i > Len(OPTIONAL_PROPERTIES) THEN acc
    ELSE LET prop_name == OPTIONAL_PROPERTIES[i]
             res == app_PROPERTY_VALIDATORS(prop_name, properties[prop_name])
         IN  app_OptionalLoop(i + 1, properties,
                 IF prop_name \in DOMAIN properties /\ prop_name \in ValidatorNames
                 THEN [acc EXCEPT
                          !.property_validations = DictSet(@, prop_name, res),
                          !.warning_count = IF res.severity = "warning" THEN @ + 1 ELSE @]
                 ELSE acc)

STATUS_OK == "OK"
STATUS_FEIL == "Feil"
STATUS_ADVARSEL == "Advarsel"
STATUS_MANGLER == "Mangler pset"

OverallStatus_WarningFirst(error_count, warning_count) ==
    IF warning_count > 0 THEN STATUS_ADVARSEL
    ELSE IF error_count > 0 THEN STATUS_FEIL
    ELSE STATUS_OK

\* "Determine overall status"
OverallStatus(error_count, warning_count) ==
    IF error_count > 0 THEN STATUS_FEIL
    ELSE IF warning_count > 0 THEN STATUS_ADVARSEL
    ELSE STATUS_OK

MissingPset_Validated(elem, got) ==
    [guid |-> elem.GlobalId,
     has_pset |-> FALSE,
     pset_name_found |-> None,
     all_psets |-> got.all_pset_names,
     properties_found |-> got.properties,
     property_validations |-> EmptyDict,
     dimension_validation |-> validate_dimensions(got.properties),
     overall_status |-> STATUS_MANGLER,
     error_count |-> 2,
     warning_count |-> 0]

MissingPset_NoError(elem, got) ==
    [guid |-> elem.GlobalId,
     has_pset |-> FALSE,
     pset_name_found |-> None,
     all_psets |-> got.all_pset_names,
     properties_found |-> EmptyDict,
     property_validations |-> EmptyDict,
     dimension_validation |-> None,
     overall_status |-> STATUS_MANGLER,
     error_count |-> 0,
     warning_count |-> 0]

\* the ElementValidation returned "if no pset found at all"
MissingPset(elem, got) ==
    [guid |-> elem.GlobalId,
     has_pset |-> FALSE,
     pset_name_found |-> None,
     all_psets |-> got.all_pset_names,
     properties_found |-> EmptyDict,
     property_validations |-> EmptyDict,
     dimension_validation |-> None,
     overall_status |-> STATUS_MANGLER,
     error_count |-> 1,
     warning_count |-> 0]

FinalCounts_NoLocationWarning(acc, dim_result, pset_name_found) ==
    [error_count |-> acc.error_count + (IF ~dim_result.is_valid THEN 1 ELSE 0),
     warning_count |-> acc.warning_count]

FinalCounts_LocationWarningAlways(acc, dim_result, pset_name_found) ==
    [error_count |-> acc.error_count + (IF ~dim_result.is_valid THEN 1 ELSE 0),
     warning_count |-> acc.warning_count + (IF pset_name_found # None THEN 1 ELSE 0)]

\* the counts after the dimension check and the wrong-location warning
FinalCounts(acc, dim_result, pset_name_found) ==
    [error_count |-> acc.error_count + (IF ~dim_result.is_valid THEN 1 ELSE 0),
     warning_count |-> acc.warning_count
         + (IF pset_name_found # None /\ pset_name_found.s # <<>>
               /\ pset_name_found # VStr(REQUIRED_PSET) THEN 1 ELSE 0)]

StartCounts == [property_validations |-> EmptyDict, error_count |-> 0, warning_count |-> 0]

\* the value a local variable was given: the one member of a singleton
The(S) == CHOOSE x \in S : TRUE

\* validate_utsparinger.validate_element
validate_element(elem, expected_prefix) ==
    The({
        IF got.pset_name_found = None THEN MissingPset(elem, got)
        ELSE The({
            [guid |-> elem.GlobalId,
             has_pset |-> got.pset_name_found = VStr(REQUIRED_PSET),
             pset_name_found |-> got.pset_name_found,
             all_psets |-> got.all_pset_names,
             properties_found |-> got.properties,
             property_validations |-> acc.property_validations,
             dimension_validation |-> dim_result,
             overall_status |->
                 OverallStatus(FinalCounts(acc, dim_result, got.pset_name_found).error_count,
                               FinalCounts(acc, dim_result, got.pset_name_found).warning_count),
             error_count |-> FinalCounts(acc, dim_result, got.pset_name_found).error_count,
             warning_count |-> FinalCounts(acc, dim_result, got.pset_name_found).warning_count] :
            acc \in {OptionalLoop(1, got.properties,
                        RequiredLoop(1, got.properties, expected_prefix, StartCounts))},
            dim_result \in {validate_dimensions(got.properties)}}) :
        got \in {get_element_properties(elem)}})

\* app.validate_element
app_validate_element(elem, expected_prefix) ==
    The({
        IF got.pset_name_found = None THEN MissingPset(elem, got)
        ELSE The({
            [guid |-> elem.GlobalId,
             has_pset |-> got.pset_name_found = VStr(REQUIRED_PSET),
             pset_name_found |-> got.pset_name_found,
             all_psets |-> got.all_pset_names,
             properties_found |-> got.properties,
             property_validations |-> acc.property_validations,
             dimension_validation |-> dim_result,
             overall_status |->
                 OverallStatus(FinalCounts(acc, dim_result, got.pset_name_found).error_count,
                               FinalCounts(acc, dim_result, got.pset_name_found).warning_count),
             error_count |-> FinalCounts(acc, dim_result, got.pset_name_found).error_count,
             warning_count |-> FinalCounts(acc, dim_result, got.pset_name_found).warning_count] :
            acc \in {app_OptionalLoop(1, got.properties,
                        app_RequiredLoop(1, got.properties, expected_prefix, StartCounts))},
            dim_result \in {app_validate_dimensions(got.properties)}}) :
        got \in {get_element_properties(elem)}})

\* an exception of a validator leaves validate_element: the exception's name
\* when a required property's validator raised, else "none"
ExceptionOf(ev_rec) ==
    IF \E k \in DOMAIN ev_rec.property_validations :
           ev_rec.property_validations[k].severity = "raised"
    THEN (CHOOSE r \in {ev_rec.property_validations[k] :
                           k \in DOMAIN ev_rec.property_validations} :
              r.severity = "raised").message.text
    ELSE "none"

-----------------------------------------------------------------------------
(* FileValidation.calculate_summary and validate_ifc_file.                 *)

\* sum(...) over a list of numbers
RECURSIVE Sum(_)
Sum(seq) == IF seq = <<>> THEN 0 ELSE Head(seq) + Sum(Tail(seq))

\* sum(1 for e in self.elements if e.overall_status == status)
CountStatus(evs, status) ==
    Sum([i \in DOMAIN evs |-> IF evs[i].overall_status = status THEN 1 ELSE 0])

calculate_summary_WarningsAsOk(evs) ==
    [total |-> Len(evs),
     ok |-> CountStatus(evs, STATUS_OK) + CountStatus(evs, STATUS_ADVARSEL),
     feil |-> CountStatus(evs, STATUS_FEIL),
     advarsel |-> CountStatus(evs, STATUS_ADVARSEL),
     mangler_pset |-> CountStatus(evs, STATUS_MANGLER),
     has_pset |-> Sum([i \in DOMAIN evs |-> IF evs[i].has_pset THEN 1 ELSE 0]),
     total_errors |-> Sum([i \in DOMAIN evs |-> evs[i].error_count]),
     total_warnings |-> Sum([i \in DOMAIN evs |-> evs[i].warning_count])]

\* FileValidation.calculate_summary, the same text in both files
calculate_summary(evs) ==
    [total |-> Len(evs),
     ok |-> CountStatus(evs, STATUS_OK),
     feil |-> CountStatus(evs, STATUS_FEIL),
     advarsel |-> CountStatus(evs, STATUS_ADVARSEL),
     mangler_pset |-> CountStatus(evs, STATUS_MANGLER),
     has_pset |-> Sum([i \in DOMAIN evs |-> IF evs[i].has_pset THEN 1 ELSE 0]),
     total_errors |-> Sum([i \in DOMAIN evs |-> evs[i].error_count]),
     total_warnings |-> Sum([i \in DOMAIN evs |-> evs[i].warning_count])]

EmptySummary == [k \in {} |-> 0]

ValidateElements_Prepends(elems, expected_prefix) ==
    [i \in DOMAIN elems |-> validate_element(elems[Len(elems) + 1 - i], expected_prefix)]

\* `for element in elements: validated_elements.append(validate_element(...))`
ValidateElements(elems, expected_prefix) ==
    [i \in DOMAIN elems |-> validate_element(elems[i], expected_prefix)]

app_ValidateElements(elems, expected_prefix) ==
    [i \in DOMAIN elems |-> app_validate_element(elems[i], expected_prefix)]

\* FileValidation(filename=..., total_elements=..., elements=...) followed
\* by calculate_summary()
FileValidation(name, total_elements, validated_elements) ==
    [filename |-> name, total_elements |-> total_elements,
     elements |-> validated_elements,
     summary |-> calculate_summary(validated_elements)]

-----------------------------------------------------------------------------
(* extract_file_prefix.                                                    *)

\* the index of the last "." of name, or 0
LastDot(name) ==
    IF \E i \in DOMAIN name : name[i] = "."
    THEN CHOOSE i \in DOMAIN name :
             name[i] = "." /\ \A j \in DOMAIN name : j > i => name[j] # "."
    ELSE 0

\* Path(filename).stem: the name without its last suffix; a leading or a
\* trailing dot starts no suffix
Stem(name) ==
    IF LastDot(name) > 1 /\ LastDot(name) < Len(name)
    THEN SubSeq(name, 1, LastDot(name) - 1)
    ELSE name

\* ['RIV', 'RIE', 'RIVA']
DISCIPLINE_CODES == {<<"R", "I", "V">>, <<"R", "I", "E">>, <<"R", "I", "V", "A">>}

\* for part in parts: if part in [...]: return part; then return None
RECURSIVE FirstCode(_)
FirstCode(parts) ==
    IF parts = <<>> THEN None
    ELSE IF Head(parts) \in DISCIPLINE_CODES THEN VStr(Head(parts))
    ELSE FirstCode(Tail(parts))

\* validate_utsparinger.extract_file_prefix: only a stem of two parts or more
\* is searched
extract_file_prefix(name) ==
    IF Len(Split(Stem(name), "_")) >= 2
    THEN FirstCode(Split(Stem(name), "_"))
    ELSE None

\* app.extract_file_prefix
app_extract_file_prefix(name) == FirstCode(Split(Stem(name), "_"))

-----------------------------------------------------------------------------
(* The report generators.  A generator is given FileValidation objects,    *)
(* which it could change: its value here is what it writes (output) and    *)
(* the objects as they are when it returns (validations).                  *)

\* prop_name.replace('A4_Utsp_', ''), for the keys of property_validations
ShortName(prop_name) ==
    IF StartsWithA4(prop_name)
    THEN SubSeq(prop_name, Len(A4_PREFIX) + 1, Len(prop_name))
    ELSE prop_name

\* property_validations.items(): the keys in the order validate_element
\* inserted them, the required properties and then the optional ones
Items(d) == SelectSeq(REQUIRED_PROPERTIES \o OPTIONAL_PROPERTIES, LAMBDA k : k \in DOMAIN d)

NoMessages == [error_messages |-> <<>>, warning_messages |-> <<>>]

\* the loop without its `elif result.severity == "warning"` branch
RECURSIVE PropertyMessages_OnlyFailed(_, _, _)
PropertyMessages_OnlyFailed(items, property_validations, acc) ==
    IF items = <<>> THEN acc
    ELSE LET result_ == property_validations[Head(items)]
             m == [about |-> ShortName(Head(items)), message |-> result_.message]
         IN  PropertyMessages_OnlyFailed(Tail(items), property_validations,
                 IF ~result_.is_valid
                 THEN IF result_.severity = "error"
                      THEN [acc EXCEPT !.error_messages = Append(@, m)]
                      ELSE IF result_.severity = "warning"
                      THEN [acc EXCEPT !.warning_messages = Append(@, m)]
                      ELSE acc
                 ELSE acc)

\* `for prop_name, result in ev.property_validations.items()`, the same text
\* in the four aggregations
RECURSIVE PropertyMessages(_, _, _)
PropertyMessages(items, property_validations, acc) ==
    IF items = <<>> THEN acc
    ELSE LET result_ == property_validations[Head(items)]
             m == [about |-> ShortName(Head(items)), message |-> result_.message]
         IN  PropertyMessages(Tail(items), property_validations,
                 IF ~result_.is_valid
                 THEN IF result_.severity = "error"
                      THEN [acc EXCEPT !.error_messages = Append(@, m)]
                      ELSE IF result_.severity = "warning"
                      THEN [acc EXCEPT !.warning_messages = Append(@, m)]
                      ELSE acc
                 ELSE IF result_.severity = "warning"
                 THEN [acc EXCEPT !.warning_messages = Append(@, m)]
                 ELSE acc)

\* the dimension message
DimensionMessages(ev_rec, acc) ==
    IF ev_rec.dimension_validation # None /\ ~ev_rec.dimension_validation.is_valid
    THEN [acc EXCEPT !.error_messages =
             Append(@, [about |-> "Dimensjoner", message |-> ev_rec.dimension_validation.message])]
    ELSE acc

\* the missing-pset error or the wrong-location warning, with the texts of
\* the generator
LocationMessages(ev_rec, acc, with_psets, without_psets, misplaced) ==
    IF ~ev_rec.has_pset /\ ev_rec.pset_name_found = None
    THEN IF ev_rec.all_psets # <<>>
         THEN [acc EXCEPT !.error_messages =
                  Append(@, [about |-> with_psets, message |-> ev_rec.all_psets])]
         ELSE [acc EXCEPT !.error_messages =
                  Append(@, [about |-> without_psets, message |-> <<>>])]
    ELSE IF ev_rec.pset_name_found # None /\ ev_rec.pset_name_found.s # <<>>
            /\ ev_rec.pset_name_found # VStr(REQUIRED_PSET)
    THEN [acc EXCEPT !.warning_messages =
             Append(@, [about |-> misplaced, message |-> ev_rec.pset_name_found.s])]
    ELSE acc

CollectMessages(ev_rec, with_psets, without_psets, misplaced) ==
    LocationMessages(ev_rec,
        DimensionMessages(ev_rec,
            PropertyMessages(Items(ev_rec.property_validations),
                             ev_rec.property_validations, NoMessages)),
        with_psets, without_psets, misplaced)

\* [f"FEIL: {m}" for m in error_messages] + [f"ADVARSEL: {m}" for m in warning_messages]
Prefixed(prefix, msgs) ==
    [i \in DOMAIN msgs |->
        [prefix |-> prefix, about |-> msgs[i].about, message |-> msgs[i].message]]

AllMessages(collected) ==
    Prefixed("FEIL:", collected.error_messages)
        \o Prefixed("ADVARSEL:", collected.warning_messages)

\* "; ".join(all_messages) if all_messages else "-": the text is "-" or the
\* entries joined, which are kept apart here
Joined(all_messages) ==
    [text |-> IF all_messages = <<>> THEN "-" ELSE "; .join",
     entries |-> all_messages]

\* app.get_error_messages
get_error_messages(ev_rec) ==
    Joined(AllMessages(CollectMessages(ev_rec, "Mangler A4_Utsp. Har:",
               "Mangler A4_Utsp. Sjekk GUID i IFC", "Egenskaper i feil pset:")))

\* generate_excel_report: the column "Feilmeldinger" of an element's row
Feilmeldinger(ev_rec) ==
    Joined(AllMessages(CollectMessages(ev_rec, "Mangler A4_Utsp pset. Funnet psets:",
               "Mangler A4_Utsp pset. Ingen psets funnet - sjekk GUID i IFC",
               "A4_Utsp-egenskaper funnet i feil pset:")))

\* generate_html_report: "errorMessages" of an element, a list
errorMessages(ev_rec) ==
    AllMessages(CollectMessages(ev_rec, "Mangler A4_Utsp. Har:",
        "Mangler A4_Utsp. Sjekk GUID i IFC", "Egenskaper i feil pset:"))

\* add_validation_pset_to_ifc: error_summary of an element
error_summary(ev_rec) ==
    Joined(AllMessages(CollectMessages(ev_rec, "Mangler A4_Utsp. Har:",
               "Mangler A4_Utsp. Sjekk GUID i IFC", "Egenskaper i feil pset:")))

\* the row of the summary sheet ("Oversikt", "Rapport") for one file
SummaryRow(fv) ==
    [Fil |-> fv.filename, Totalt |-> fv.summary.total, OK |-> fv.summary.ok,
     Feil |-> fv.summary.feil, Advarsler |-> fv.summary.advarsel,
     Mangler_pset |-> fv.summary.mangler_pset, Har_A4_Utsp |-> fv.summary.has_pset,
     Totalt_antall_feil |-> fv.summary.total_errors,
     Totalt_antall_advarsler |-> fv.summary.total_warnings]

\* the rows of the sheet "Feil og advarsler" that one element gives
ErrorRows(ev_rec) ==
    IF ev_rec.error_count > 0 \/ ev_rec.warning_count > 0
    THEN [properties |->
              SelectSeq(Items(ev_rec.property_validations),
                  LAMBDA k : ~ev_rec.property_validations[k].is_valid
                             \/ ev_rec.property_validations[k].severity = "warning"),
          dimensions |-> ev_rec.dimension_validation # None
                         /\ ~ev_rec.dimension_validation.is_valid]
    ELSE [properties |-> <<>>, dimensions |-> FALSE]

generate_excel_report_SortsInPlace(vals) ==
    [output |-> [i \in DOMAIN vals |-> SummaryRow(vals[i])],
     validations |->
         [i \in DOMAIN vals |->
             [vals[i] EXCEPT !.elements =
                 [j \in DOMAIN @ |-> @[Len(@) + 1 - j]]]]]

\* validate_utsparinger.generate_excel_report: the summary sheet, one detail
\* sheet per file and the error list
generate_excel_report(vals) ==
    [output |->
        [Oversikt |-> [i \in DOMAIN vals |-> SummaryRow(vals[i])],
         sheets |-> [i \in DOMAIN vals |->
             [j \in DOMAIN vals[i].elements |->
                 [GUID |-> vals[i].elements[j].guid,
                  Status |-> vals[i].elements[j].overall_status,
                  Feilmeldinger |-> Feilmeldinger(vals[i].elements[j]),
                  Har_A4_Utsp |-> IF vals[i].elements[j].has_pset THEN "Ja" ELSE "Nei",
                  Tilgjengelige_psets |-> vals[i].elements[j].all_psets,
                  Antall_feil |-> vals[i].elements[j].error_count,
                  Antall_advarsler |-> vals[i].elements[j].warning_count,
                  values |-> vals[i].elements[j].properties_found]]],
         error_rows |-> [i \in DOMAIN vals |->
             [j \in DOMAIN vals[i].elements |-> ErrorRows(vals[i].elements[j])]]],
     validations |-> vals]

\* validate_utsparinger.generate_html_report: js_data["files"]
generate_html_report(vals) ==
    [output |->
        [i \in DOMAIN vals |->
            [filename |-> vals[i].filename,
             summary |-> vals[i].summary,
             elements |-> [j \in DOMAIN vals[i].elements |->
                 [guid |-> vals[i].elements[j].guid,
                  status |-> vals[i].elements[j].overall_status,
                  hasPset |-> vals[i].elements[j].has_pset,
                  psetFound |-> vals[i].elements[j].pset_name_found,
                  allPsets |-> vals[i].elements[j].all_psets,
                  errorCount |-> vals[i].elements[j].error_count,
                  warningCount |-> vals[i].elements[j].warning_count,
                  errorMessages |-> errorMessages(vals[i].elements[j]),
                  properties |-> vals[i].elements[j].properties_found,
                  validations |-> vals[i].elements[j].property_validations]]]],
     validations |-> vals]

val_status(ev_rec) ==
    IF ev_rec.overall_status = STATUS_OK THEN "Godkjent"
    ELSE IF ev_rec.overall_status = STATUS_ADVARSEL THEN "Godkjent med advarsler"
    ELSE IF ev_rec.overall_status = STATUS_MANGLER THEN "Mangler A4_Utsp"
    ELSE "Ikke godkjent"

pset_status(ev_rec) ==
    IF ev_rec.has_pset THEN "OK"
    ELSE IF ev_rec.pset_name_found # None /\ ev_rec.pset_name_found.s # <<>>
    THEN "Feil plassering"
    ELSE "Mangler"

\* validation_lookup = {ev.guid: ev for ev in validation.elements}: the last
\* record of a guid
HasGuid(validation, guid) ==
    \E j \in DOMAIN validation.elements : validation.elements[j].guid = guid

Lookup(validation, guid) ==
    validation.elements[CHOOSE j \in DOMAIN validation.elements :
        /\ validation.elements[j].guid = guid
        /\ \A k \in DOMAIN validation.elements :
               validation.elements[k].guid = guid => k <= j]

\* the property set NOSKI_Validering of one element
NOSKI_Validering(ev_rec, messages) ==
    [Valideringsstatus |-> val_status(ev_rec),
     Feilmeldinger |-> messages,
     Antall_feil |-> ev_rec.error_count,
     Antall_advarsler |-> ev_rec.warning_count,
     A4_Utsp_pset |-> pset_status(ev_rec),
     Tilgjengelige_psets |-> ev_rec.all_psets,
     Dimensjoner |-> IF ev_rec.dimension_validation # None
                     THEN ev_rec.dimension_validation.message.text
                     ELSE "Ikke validert",
     sjekk |-> [k \in DOMAIN ev_rec.property_validations |->
                   ev_rec.property_validations[k].message]]

\* validate_utsparinger.add_validation_pset_to_ifc on the model read again
\* from validation.filepath: the property set added to each element that the
\* lookup holds
add_validation_pset_to_ifc(validation, model) ==
    [output |->
        [i \in {x \in DOMAIN model : HasGuid(validation, model[x].GlobalId)} |->
            NOSKI_Validering(Lookup(validation, model[i].GlobalId),
                             error_summary(Lookup(validation, model[i].GlobalId)))],
     validations |-> <<validation>>]

\* app.create_excel_report: the sheet "Rapport"
create_excel_report(vals) ==
    [output |->
        [summary_data |-> [i \in DOMAIN vals |-> SummaryRow(vals[i])],
         all_rows |-> [i \in DOMAIN vals |->
             [j \in DOMAIN vals[i].elements |->
                 [GUID |-> vals[i].elements[j].guid,
                  Status |-> vals[i].elements[j].overall_status,
                  Feilmeldinger |-> get_error_messages(vals[i].elements[j]),
                  Tilgjengelige_psets |-> vals[i].elements[j].all_psets,
                  values |-> vals[i].elements[j].properties_found]]]],
     validations |-> vals]

\* app.create_html_report: js_data["files"]
create_html_report(vals) ==
    [output |->
        [i \in DOMAIN vals |->
            [filename |-> vals[i].filename,
             summary |-> vals[i].summary,
             elements |-> [j \in DOMAIN vals[i].elements |->
                 [guid |-> vals[i].elements[j].guid,
                  status |-> vals[i].elements[j].overall_status,
                  errors |-> get_error_messages(vals[i].elements[j]),
                  properties |-> vals[i].elements[j].properties_found]]]],
     validations |-> vals]

\* app.create_validated_ifc, when nothing raises: the property set and the
\* colour given to each element that the lookup holds
create_validated_ifc(validation, model) ==
    [output |->
        [i \in {x \in DOMAIN model : HasGuid(validation, model[x].GlobalId)} |->
            [pset |-> NOSKI_Validering(Lookup(validation, model[i].GlobalId),
                          get_error_messages(Lookup(validation, model[i].GlobalId))),
             style |-> Lookup(validation, model[i].GlobalId).overall_status]],
     validations |-> <<validation>>]

\* the rows of the results dialog of app.py (tab "Alle")
show_results_dialog(vals) ==
    [output |->
        [i \in DOMAIN vals |->
            [j \in DOMAIN vals[i].elements |->
                [Status |-> vals[i].elements[j].overall_status,
                 Feil |-> get_error_messages(vals[i].elements[j]),
                 GUID |-> vals[i].elements[j].guid]]],
     validations |-> vals]

-----------------------------------------------------------------------------
(* The inputs drawn.                                                       *)

\* a key a dict does not hold
MISSING == [t |-> "missing", s |-> <<>>, n |-> 0]

\* the dict of the keys to which f gives a value
DictOf(f) == [k \in {x \in DOMAIN f : f[x] # MISSING} |-> f[k]]

DimValues ==
    {None, VStr(<<>>), VStr(<<" ">>), VStr(<<"0">>), VStr(<<"0", ".", "0">>), VStr(<<" ", "0", " ">>),
     VStr(<<"0", ".", "0", "0">>), VStr(<<"2", "0", "0">>), VFloat(0), VFloat(25), VNegZero, VBool(FALSE)}
    \cup {VInt(n) : n \in 0..MaxNum}

DimInputs ==
    {DictOf(f) : f \in [{P_DimBredde, P_DimHoyde, P_DimDiameter} -> DimValues \cup {MISSING}]}

NoElement == [GlobalId |-> 0, IsDefinedBy |-> <<>>]
NoElementValidation == [guid |-> 0]

\* the variables a specification does not use
IdleDims == in_props = EmptyDict
IdleRules == in_value = None
IdleElement == element = NoElement /\ ev = NoElementValidation
\* main was not called and no report was generated
NoArgs == [no_excel |-> FALSE, no_html |-> FALSE, no_ifc |-> FALSE]
IdleMain == ifc_files = <<>> /\ main_args = NoArgs /\ validations = <<>> /\ events = <<>>
NoReports == reports = <<>>
IdleFile ==
    /\ elements = <<>> /\ validated = <<>> /\ summary = EmptySummary
    /\ filename = <<>> /\ temp_files = {}
    /\ IdleMain /\ NoReports

-----------------------------------------------------------------------------
(* SpecDim: validate_dimensions applied to a properties dict.              *)

InitDim ==
    /\ pc = "input" /\ impl = "none"
    /\ in_props \in DimInputs
    /\ in_prefix = None /\ result = NoResult
    /\ IdleRules /\ IdleElement /\ IdleFile

CallValidateDimensions ==
    /\ pc = "input"
    /\ pc' = "validate_dimensions" /\ impl' = "batch"
    /\ result' = validate_dimensions(in_props)
    /\ UNCHANGED <<in_props, in_value, in_prefix, element, ev, elements, validated, summary,
                 filename, temp_files,
                 ifc_files, main_args, validations, events, reports>>

CallAppValidateDimensions ==
    /\ pc = "input"
    /\ pc' = "validate_dimensions" /\ impl' = "app"
    /\ result' = app_validate_dimensions(in_props)
    /\ UNCHANGED <<in_props, in_value, in_prefix, element, ev, elements, validated, summary,
                 filename, temp_files,
                 ifc_files, main_args, validations, events, reports>>

NextDim == CallValidateDimensions \/ CallAppValidateDimensions

SpecDim == InitDim /\ [][NextDim]_vars

-----------------------------------------------------------------------------
(* Claims about validate_dimensions (SpecDim).                             *)

\* numeric 0 or 0.0, or a string that is blank, "0" or "0.0" once trimmed
ZeroOrBlank(v) ==
    \/ v.t = "int" /\ v.n = 0
    \/ v.t = "float" /\ v.n = 0
    \/ v.t = "str" /\ Strip(v.s) \in {<<>>, <<"0">>, <<"0", ".", "0">>}

\* the value under key counts as present
PresentIn(props, key) ==
    key \in DOMAIN props /\ props[key] # None /\ ~ZeroOrBlank(props[key])

\* props without the keys whose value does not count as present
OnlyPresent(props) == [k \in {x \in DOMAIN props : PresentIn(props, x)} |-> props[k]]

DimCalled == pc = "validate_dimensions"
Passed(text) == result.is_valid /\ result.message.text = text
Failed(text) == ~result.is_valid /\ result.severity = "error" /\ result.message.text = text

\* C6: over the combinations of present/absent width, height and diameter,
\* width and height give the passed rectangular outcome, a diameter alone the
\* passed round outcome, a width alone fails with "height missing", a height
\* alone with "width missing", and nothing present with the generic message.
C6_DimensionCases ==
    DimCalled =>
        LET w == PresentIn(in_props, P_DimBredde)
            h == PresentIn(in_props, P_DimHoyde)
            d == PresentIn(in_props, P_DimDiameter)
        IN  /\ (w /\ h) => Passed(MSG_RECT)
            /\ (~w /\ ~h /\ d) => Passed(MSG_ROUND)
            /\ (w /\ ~h /\ ~d) => Failed(MSG_NO_HEIGHT)
            /\ (~w /\ h /\ ~d) => Failed(MSG_NO_WIDTH)
            /\ (~w /\ ~h /\ ~d) => Failed(MSG_NO_DIMS)

C6_Witness ==
    /\ DimCalled
    /\ PresentIn(in_props, P_DimBredde)
    /\ ~PresentIn(in_props, P_DimHoyde)
    /\ ~PresentIn(in_props, P_DimDiameter)
    /\ Failed(MSG_NO_HEIGHT)

\* C7: the decision is first-match-wins: with width, height and diameter all
\* present the outcome is rectangular, and a diameter together with only one
\* of width and height gives the passed round outcome, not a missing-field
\* error.
C7_FirstMatchWins ==
    DimCalled =>
        LET w == PresentIn(in_props, P_DimBredde)
            h == PresentIn(in_props, P_DimHoyde)
            d == PresentIn(in_props, P_DimDiameter)
        IN  /\ (w /\ h /\ d) => Passed(MSG_RECT)
            /\ (d /\ (w # h)) => Passed(MSG_ROUND)

C7_Witness ==
    /\ DimCalled
    /\ PresentIn(in_props, P_DimDiameter)
    /\ PresentIn(in_props, P_DimHoyde)
    /\ ~PresentIn(in_props, P_DimBredde)
    /\ Passed(MSG_ROUND)

\* C8: a value that is numeric 0 or 0.0, or "0", "0.0" or blank after
\* trimming, is treated exactly like an absent one (the outcome is that of
\* the dict without it), and every other value that is not None counts as
\* present.
C8_ZeroIsAbsent ==
    DimCalled =>
        /\ result = (IF impl = "batch" THEN validate_dimensions(OnlyPresent(in_props))
                     ELSE app_validate_dimensions(OnlyPresent(in_props)))
        /\ (PresentIn(in_props, P_DimBredde) /\ PresentIn(in_props, P_DimHoyde))
               => Passed(MSG_RECT)
        /\ (PresentIn(in_props, P_DimDiameter) /\ DOMAIN OnlyPresent(in_props) = {P_DimDiameter})
               => Passed(MSG_ROUND)

C8_Witness ==
    /\ DimCalled
    /\ P_DimBredde \in DOMAIN in_props /\ in_props[P_DimBredde] = VInt(0)
    /\ PresentIn(in_props, P_DimHoyde)
    /\ Failed(MSG_NO_WIDTH)

-----------------------------------------------------------------------------
(* SpecRules: validate_id applied to a raw value and an expected prefix.   *)

\* longest run of letters and of digit-position characters in a drawn ID
MaxIdLetters == 5
MaxIdDigits == 2

IdLetterBase == <<"R", "I", "V", "A", "X", "Y", "Z">>

\* the first n letters, with the j-th (if any) in lower case
IdLetters ==
    {[i \in 1..n |-> IF i = j THEN "e" ELSE IdLetterBase[i]] :
        n \in 0..MaxIdLetters, j \in 0..MaxIdLetters}

IdDigits == UNION {[1..n -> {"1", "U+0663", "x"}] : n \in 0..MaxIdDigits}

IdSeparators == {<<"_", "H", "u", "l", "l", "-">>, <<"_", "h", "u", "l", "l", "-">>, <<"-", "H", "u", "l", "l", "-">>, <<"_", "H", "u", "l", "l">>, <<"_">>}

IdValues ==
    {VStr(l \o letters \o sep \o digits \o r) :
        l \in {<<>>, <<" ">>}, letters \in IdLetters, sep \in IdSeparators,
        digits \in IdDigits, r \in {<<>>, <<"\n">>}}
    \cup {None, VStr(<<>>), VStr(<<" ">>), VInt(1), VFloat(10), VBool(TRUE)}

IdPrefixes == {None, VStr(<<>>), VStr(<<"R", "I", "V">>), VStr(<<"R", "I", "V", "A">>)}

InitRules ==
    /\ pc = "input" /\ impl = "none"
    /\ in_value \in IdValues
    /\ in_prefix \in IdPrefixes
    /\ result = NoResult
    /\ IdleDims /\ IdleElement /\ IdleFile

CallValidateId ==
    /\ pc = "input"
    /\ pc' = "validate_id" /\ impl' = "batch"
    /\ result' = validate_id(in_value, in_prefix)
    /\ UNCHANGED <<in_props, in_value, in_prefix, element, ev, elements, validated, summary,
                 filename, temp_files,
                 ifc_files, main_args, validations, events, reports>>

CallAppValidateId ==
    /\ pc = "input"
    /\ pc' = "validate_id" /\ impl' = "app"
    /\ result' = app_validate_id(in_value, in_prefix)
    /\ UNCHANGED <<in_props, in_value, in_prefix, element, ev, elements, validated, summary,
                 filename, temp_files,
                 ifc_files, main_args, validations, events, reports>>

NextRules == CallValidateId \/ CallAppValidateId

SpecRules == InitRules /\ [][NextRules]_vars

-----------------------------------------------------------------------------
(* Claims about validate_id (SpecRules).                                   *)

\* s is 2 to 4 upper-case letters, then "_Hull-", then one or more digits
HasIdFormat(s) ==
    \E k \in 2..4 :
        /\ Len(s) >= k + 7
        /\ \A i \in 1..k : s[i] \in UpperChars
        /\ SubSeq(s, k + 1, k + 6) = <<"_", "H", "u", "l", "l", "-">>
        /\ \A i \in (k + 7)..Len(s) : s[i] \in DigitSet

IdCalled == pc = "validate_id"

\* C9 as stated: with no expected prefix, validate_id passes exactly the
\* strings that match ^[A-Z]{2,4}_Hull-\d+$ and gives an error outcome for
\* every other value.
C9_PassesExactlyMatching ==
    (IdCalled /\ in_prefix = None) =>
        /\ result.is_valid <=> (in_value.t = "str" /\ HasIdFormat(in_value.s))
        /\ ~result.is_valid => result.severity = "error"

\* C9 amended: with no expected prefix, validate_id passes exactly the values
\* whose text, with surrounding whitespace trimmed, matches
\* ^[A-Z]{2,4}_Hull-\d+$, and gives an error outcome for every other value,
\* absent and empty included.
C9_PassesExactlyTrimmedMatching ==
    (IdCalled /\ in_prefix = None) =>
        /\ result.is_valid <=> (in_value # None /\ HasIdFormat(Strip(PyStr(in_value))))
        /\ ~result.is_valid => result.severity = "error"

C9_Witness ==
    /\ IdCalled /\ in_prefix = None
    /\ in_value.t = "str" /\ ~HasIdFormat(in_value.s)
    /\ HasIdFormat(Strip(in_value.s))
    /\ result.is_valid

\* C10: with an expected prefix, a format-valid ID whose letter prefix differs
\* from it gets passed = true with severity "warning".
C10_MismatchPassesWithWarning ==
    (/\ IdCalled
     /\ in_prefix # None /\ in_prefix.s # <<>>
     /\ in_value # None /\ HasIdFormat(Strip(PyStr(in_value)))
     /\ SplitFirst(Strip(PyStr(in_value)), "_") # in_prefix.s)
        => (result.is_valid /\ result.severity = "warning")

-----------------------------------------------------------------------------
(* The elements drawn.                                                     *)

Prop(name, value) == [Name |-> name, NominalValue |-> value]

Pset(name, props) ==
    [is_a |-> "IfcRelDefinesByProperties",
     RelatingPropertyDefinition |->
         [is_a |-> "IfcPropertySet", Name |-> name, HasProperties |-> props]]

\* a quantity set: related by IfcRelDefinesByProperties, and no IfcPropertySet
Qto(name) ==
    [is_a |-> "IfcRelDefinesByProperties",
     RelatingPropertyDefinition |->
         [is_a |-> "IfcElementQuantity", Name |-> name, HasProperties |-> <<>>]]

\* the element's type relation, which IsDefinedBy lists too in IFC2X3
TypeRel ==
    [is_a |-> "IfcRelDefinesByType",
     RelatingPropertyDefinition |->
         [is_a |-> "IfcElementType", Name |-> <<>>, HasProperties |-> <<>>]]

\* a property with the prefix that the rules do not know, and one without it
P_Extra == A4_PREFIX \o <<"E", "x", "t", "r", "a">>
P_Foo == <<"R", "e", "f", "e", "r", "e", "n", "c", "e">>

PropOrder == ALL_PROPERTIES \o <<P_Extra, P_Foo>>

\* the HasProperties list of the properties of dict d, in PropOrder
RECURSIVE PropsFrom(_, _)
PropsFrom(d, i) ==
    IF i > Len(PropOrder) THEN <<>>
    ELSE (IF PropOrder[i] \in DOMAIN d
          THEN <<Prop(PropOrder[i], d[PropOrder[i]])>> ELSE <<>>) \o PropsFrom(d, i + 1)

\* the property set of the specification's end-to-end scenario (element A)
FullProps ==
    (P_Kategori :> VStr(<<"P", "r", "o", "v", "i", "s", "i", "o", "n", "F", "o", "r", "V", "o", "i", "d">>)) @@ (P_ID :> VStr(<<"R", "I", "V", "_", "H", "u", "l", "l", "-", "1">>))
    @@ (P_Utsparingstype :> VStr(<<"U", "t", "s", "p", "a", "r", "i", "n", "g">>)) @@ (P_Tetting :> VStr(<<"J", "a">>))
    @@ (P_Fase :> VStr(<<"F", "a", "s", "e", " ", "1">>)) @@ (P_Status :> VStr(<<"G", "o", "d", "k", "j", "e", "n", "t">>))
    @@ (P_Rev :> VInt(0)) @@ (P_RevDato :> VStr(<<"0", "1", ".", "0", "1", ".", "2", "0", "2", "4">>))
    @@ (P_RevBeskrivelse :> VStr(<<"I", "n", "i", "t", "i", "a", "l">>))
    @@ (P_DimBredde :> VInt(200)) @@ (P_DimHoyde :> VInt(300))

\* the other values drawn for each property
OtherValues(k) ==
    CASE k = P_Kategori -> {None, VStr(<<" ", "P", "r", "o", "v", "i", "s", "i", "o", "n", "F", "o", "r", "V", "o", "i", "d">>), VStr(<<"W", "a", "l", "l">>)}
      [] k = P_ID -> {None, VStr(<<"R", "I", "E", "_", "H", "u", "l", "l", "-", "2">>), VStr(<<"R", "I", "V", "_", "H", "u", "l", "l", "-">>),
                      VStr(<<" ", "R", "I", "V", "_", "H", "u", "l", "l", "-", "1", " ">>), VInt(1)}
      [] k = P_Utsparingstype -> {None, VStr(S_Innstopningsgods), VStr(<<"H", "u", "l", "l", "t", "a", "k", "i", "n", "g">>),
                                  VStr(<<"S", "l", "i", "s", "s", "e">>)}
      [] k = P_Tetting -> {None, VBool(TRUE), VBool(FALSE), VStr(<<"N", "e", "i">>), VStr(<<"j", "a">>),
                           VInt(1)}
      [] k = P_Fase -> {None, VStr(<<"F", "a", "s", "e", " ", "2">>), VStr(<<"F", "a", "s", "e", " ", "3">>)}
      [] k = P_Status -> {None, VStr(<<"I", "k", "k", "e", " ", "g", "o", "d", "k", "j", "e", "n", "t">>), VStr(<<"F", "e", "r", "d", "i", "g">>)}
      [] k = P_Rev -> {None, VStr(<<"1">>), VFloat(30), VStr(<<"-", "1">>), VStr(<<"a", "b", "c">>),
                       VInt(-1), VInf}
      [] k = P_RevDato -> {None, VStr(<<"1", ".", "1", ".", "2", "0", "2", "4">>)}
      [] k = P_RevBeskrivelse -> {None, VStr(<<>>)}
      [] k = P_DimBredde -> {None, VInt(0)}
      [] k = P_DimHoyde -> {None, VStr(<<"0", ".", "0">>)}
      [] k = P_DimDybde -> {VInt(1)}
      [] k = P_DimDiameter -> {VInt(2), VFloat(0)}
      [] k = P_Funksjon -> {None, VStr(<<>>), VStr(<<"B", "r", "a", "n", "n">>), VStr(<<"B", "r", "a", "n", "n", ",", " ", "L", "y", "d">>),
                            VStr(<<"B", "r", "a", "n", "n", ",", "S", "i", "k", "r", "i", "n", "g">>)}
      [] k = P_Extra -> {VStr(<<"q">>)}
      [] k = P_Foo -> {VStr(<<"B", "1">>)}

\* d with key k given value v, or without k when v is MISSING
Changed(d, k, v) ==
    [x \in (IF v = MISSING THEN DOMAIN d \ {k} ELSE DOMAIN d \cup {k}) |->
        IF x = k THEN v ELSE d[x]]

\* the changes of one property: another value, or the property left out
Changes ==
    UNION {{<<k, v>> : v \in OtherValues(k) \cup {MISSING}} : k \in Range(PropOrder)}

\* the dicts that differ from base in at most n properties
RECURSIVE Variants(_, _)
Variants(base, n) ==
    IF n = 0 THEN {base}
    ELSE LET prev == Variants(base, n - 1)
         IN  prev \cup {Changed(d, kv[1], kv[2]) : d \in prev, kv \in Changes}

PsetDicts == Variants(FullProps, MaxDev) \cup Variants(EmptyDict, MaxDev)

PSET_X == <<"P", "s", "e", "t", "_", "X">>
PSET_Y == <<"N", "O", "S", "K", "I", "_", "F", "e", "l", "l", "e", "s">>
PSET_COMMON == <<"P", "s", "e", "t", "_", "B", "u", "i", "l", "d", "i", "n", "g", "E", "l", "e", "m", "e", "n", "t", "P", "r", "o", "x", "y", "C", "o", "m", "m", "o", "n">>

\* elements with one property set, under the required name or another one
SinglePsetElements ==
    {[GlobalId |-> 1, IsDefinedBy |-> <<Pset(name, PropsFrom(d, 1))>>] :
        name \in {REQUIRED_PSET, PSET_X}, d \in PsetDicts}

\* the definitions drawn for the elements with several of them
Definitions ==
    {Pset(REQUIRED_PSET, PropsFrom(FullProps, 1)),
     Pset(REQUIRED_PSET, <<>>),
     Pset(PSET_X, <<Prop(P_ID, VStr(<<"R", "I", "E", "_", "H", "u", "l", "l", "-", "2">>)), Prop(P_DimDiameter, VInt(2))>>),
     Pset(PSET_Y, <<Prop(P_Extra, VStr(<<"q">>)), Prop(P_Funksjon, VStr(<<"S", "i", "k", "r", "i", "n", "g">>))>>),
     Pset(PSET_COMMON, <<Prop(P_Foo, VStr(<<"B", "1">>))>>),
     Qto(REQUIRED_PSET),
     TypeRel}

SeqsUpTo(S, n) == UNION {[1..m -> S] : m \in 0..n}

MultiPsetElements ==
    {[GlobalId |-> 1, IsDefinedBy |-> defs] : defs \in SeqsUpTo(Definitions, MaxAssoc)}

ElementInputs == SinglePsetElements \cup MultiPsetElements

\* the expected prefixes extract_file_prefix gives validate_element
ElementPrefixes == {None, VStr(<<"R", "I", "V">>), VStr(<<"R", "I", "E">>)}

-----------------------------------------------------------------------------
(* SpecElem: validate_element applied to one element.                      *)

InitElem ==
    /\ pc = "input" /\ impl = "none"
    /\ element \in ElementInputs
    /\ in_prefix \in ElementPrefixes
    /\ ev = NoElementValidation
    /\ result = NoResult
    /\ IdleDims /\ IdleRules /\ IdleFile

\* validate_utsparinger.validate_element returns, or a validator's exception
\* leaves it
ValidateElement ==
    /\ pc = "input"
    /\ impl' = "batch"
    /\ \E r \in {validate_element(element, in_prefix)} :
           IF ExceptionOf(r) = "none"
           THEN pc' = "validated" /\ ev' = r
           ELSE pc' = "raised" /\ ev' = ev
    /\ UNCHANGED <<in_props, in_value, in_prefix, result, element, elements, validated, summary,
                 filename, temp_files,
                 ifc_files, main_args, validations, events, reports>>

\* app.validate_element
AppValidateElement ==
    /\ pc = "input"
    /\ impl' = "app"
    /\ \E r \in {app_validate_element(element, in_prefix)} :
           IF ExceptionOf(r) = "none"
           THEN pc' = "validated" /\ ev' = r
           ELSE pc' = "raised" /\ ev' = ev
    /\ UNCHANGED <<in_props, in_value, in_prefix, result, element, elements, validated, summary,
                 filename, temp_files,
                 ifc_files, main_args, validations, events, reports>>

NextElem == ValidateElement \/ AppValidateElement

SpecElem == InitElem /\ [][NextElem]_vars

-----------------------------------------------------------------------------
(* Spec: validate_ifc_file applied to the elements of one model.           *)

\* the IsDefinedBy lists of the elements of the files drawn
FileElementKinds ==
    {<<Pset(REQUIRED_PSET, PropsFrom(FullProps, 1))>>,
     <<>>,
     <<Pset(REQUIRED_PSET,
            PropsFrom(Changed(FullProps, P_Utsparingstype, VStr(S_Innstopningsgods)), 1))>>,
     <<Pset(REQUIRED_PSET, PropsFrom(Changed(FullProps, P_DimHoyde, MISSING), 1))>>,
     <<Pset(PSET_X, PropsFrom(FullProps, 1))>>,
     <<Pset(PSET_X, <<Prop(P_ID, VStr(<<"R", "I", "E", "_", "H", "u", "l", "l", "-", "2">>))>>)>>,
     <<Pset(PSET_COMMON, <<Prop(P_Foo, VStr(<<"B", "1">>))>>)>>,
     <<Pset(REQUIRED_PSET, PropsFrom(Changed(FullProps, P_Funksjon, VStr(<<"X">>)), 1))>>,
     <<Pset(REQUIRED_PSET, PropsFrom(Changed(FullProps, P_Rev, VInf), 1))>>}

\* model.by_type("IfcBuildingElementProxy"): each element with its own GlobalId
FileInputs ==
    {[i \in DOMAIN kinds |-> [GlobalId |-> i, IsDefinedBy |-> kinds[i]]] :
        kinds \in SeqsUpTo(FileElementKinds, MaxElements)}

\* the names of the files drawn
SpecFileNames ==
    {<<"A", "4", "_", "R", "I", "V", "_", "U", "t", "s", "p", "a", "r", "i", "n", "g", "e", "r", ".", "i", "f", "c">>, <<"A", "4", "_", "R", "I", "E", "_", "U", "t", "s", "p", "a", "r", "i", "n", "g", "e", "r", ".", "i", "f", "c">>, <<"R", "I", "V", ".", "i", "f", "c">>, <<"m", "o", "d", "e", "l", "l", ".", "i", "f", "c">>}

\* the temporary files of app.py, by the function and the variable that
\* holds the path
TMP_VALIDATE == "validate_ifc_file.tmp_path"
TMP_CREATE == "create_validated_ifc.tmp_path"
OUT_CREATE == "create_validated_ifc.output_path"

Init ==
    /\ pc = "input" /\ impl = "none"
    /\ elements \in FileInputs
    /\ filename \in SpecFileNames
    /\ in_prefix = None
    /\ validated = <<>> /\ summary = EmptySummary
    /\ temp_files = {}
    /\ result = NoResult
    /\ IdleDims /\ IdleRules /\ IdleElement
    /\ IdleMain /\ NoReports

\* validate_utsparinger.validate_ifc_file: the model is opened (or
\* ifcopenshell.open raises), the prefix is taken from the file's name, every
\* element is validated in model order, then calculate_summary
ValidateIfcFile ==
    /\ pc = "input"
    /\ impl' = "batch"
    /\ \E loads \in BOOLEAN :
           IF ~loads
           THEN pc' = "load_raised" /\ UNCHANGED <<in_prefix, validated, summary, validations>>
           ELSE \E expected_prefix \in {extract_file_prefix(filename)} :
                \E rs \in {ValidateElements(elements, expected_prefix)} :
                    /\ in_prefix' = expected_prefix
                    /\ IF \A i \in DOMAIN rs : ExceptionOf(rs[i]) = "none"
                       THEN \E fv \in {FileValidation(filename, Len(elements), rs)} :
                                /\ pc' = "file_validated"
                                /\ validated' = fv.elements
                                /\ summary' = fv.summary
                                /\ validations' = <<fv>>
                       ELSE pc' = "raised" /\ UNCHANGED <<validated, summary, validations>>
    /\ UNCHANGED <<in_props, in_value, result, element, ev, elements, filename, temp_files,
                   ifc_files, main_args, events, reports>>

\* app.validate_ifc_file: the upload is written to a temporary file, which
\* is unlinked on the last line before the return
AppValidateIfcFile ==
    /\ pc = "input"
    /\ impl' = "app"
    /\ \E loads \in BOOLEAN :
           IF ~loads
           THEN /\ pc' = "load_raised"
                /\ temp_files' = temp_files \cup {TMP_VALIDATE}
                /\ UNCHANGED <<in_prefix, validated, summary, validations>>
           ELSE \E expected_prefix \in {app_extract_file_prefix(filename)} :
                \E rs \in {app_ValidateElements(elements, expected_prefix)} :
                    /\ in_prefix' = expected_prefix
                    /\ IF \A i \in DOMAIN rs : ExceptionOf(rs[i]) = "none"
                       THEN \E fv \in {FileValidation(filename, Len(elements), rs)} :
                                /\ pc' = "file_validated"
                                /\ validated' = fv.elements
                                /\ summary' = fv.summary
                                /\ validations' = <<fv>>
                                /\ temp_files' = (temp_files \cup {TMP_VALIDATE}) \ {TMP_VALIDATE}
                       ELSE /\ pc' = "raised" /\ UNCHANGED <<validated, summary, validations>>
                            /\ temp_files' = temp_files \cup {TMP_VALIDATE}
    /\ UNCHANGED <<in_props, in_value, result, element, ev, elements, filename,
                   ifc_files, main_args, events, reports>>

\* a generator returned r: its output is kept under the generator's name and
\* the FileValidation is what the call left of it
Reported(generator, r) ==
    /\ reports' = (generator :> r.output) @@ reports
    /\ validations' = r.validations
    /\ validated' = r.validations[1].elements
    /\ summary' = r.validations[1].summary

\* a report of the validated file that was not generated yet
CanReport(copy, generator) ==
    pc = "file_validated" /\ impl = copy /\ generator \notin DOMAIN reports

GenerateExcelReport ==
    /\ CanReport("batch", "generate_excel_report")
    /\ \E r \in {generate_excel_report(validations)} : Reported("generate_excel_report", r)
    /\ UNCHANGED <<pc, impl, in_props, in_value, in_prefix, result, element, ev, elements,
                   filename, temp_files, ifc_files, main_args, events>>

GenerateHtmlReport ==
    /\ CanReport("batch", "generate_html_report")
    /\ \E r \in {generate_html_report(validations)} : Reported("generate_html_report", r)
    /\ UNCHANGED <<pc, impl, in_props, in_value, in_prefix, result, element, ev, elements,
                   filename, temp_files, ifc_files, main_args, events>>

AddValidationPsetToIfc ==
    /\ CanReport("batch", "add_validation_pset_to_ifc")
    /\ \E r \in {add_validation_pset_to_ifc(validations[1], elements)} :
           Reported("add_validation_pset_to_ifc", r)
    /\ UNCHANGED <<pc, impl, in_props, in_value, in_prefix, result, element, ev, elements,
                   filename, temp_files, ifc_files, main_args, events>>

AppCreateExcelReport ==
    /\ CanReport("app", "create_excel_report")
    /\ \E r \in {create_excel_report(validations)} : Reported("create_excel_report", r)
    /\ UNCHANGED <<pc, impl, in_props, in_value, in_prefix, result, element, ev, elements,
                   filename, temp_files, ifc_files, main_args, events>>

AppCreateHtmlReport ==
    /\ CanReport("app", "create_html_report")
    /\ \E r \in {create_html_report(validations)} : Reported("create_html_report", r)
    /\ UNCHANGED <<pc, impl, in_props, in_value, in_prefix, result, element, ev, elements,
                   filename, temp_files, ifc_files, main_args, events>>

AppShowResultsDialog ==
    /\ CanReport("app", "get_error_messages")
    /\ \E r \in {show_results_dialog(validations)} : Reported("get_error_messages", r)
    /\ UNCHANGED <<pc, impl, in_props, in_value, in_prefix, result, element, ev, elements,
                   filename, temp_files, ifc_files, main_args, events>>

\* app.create_validated_ifc on the validated file: a second temporary copy
\* and the written output, both unlinked on the last lines; fault is where
\* an exception leaves the function, if one does
AppCreateValidatedIfc ==
    /\ pc = "file_validated" /\ impl = "app"
    /\ \E fault \in {"none", "open", "write", "read"} :
           CASE fault = "none" ->
                    /\ pc' = "exported"
                    /\ temp_files' = (temp_files \cup {TMP_CREATE, OUT_CREATE})
                                          \ {TMP_CREATE, OUT_CREATE}
                    /\ \E r \in {create_validated_ifc(validations[1], elements)} :
                           Reported("create_validated_ifc", r)
             [] fault = "open" ->
                    /\ pc' = "export_raised"
                    /\ temp_files' = temp_files \cup {TMP_CREATE}
                    /\ UNCHANGED <<validated, summary, validations, reports>>
             [] fault = "write" ->
                    /\ pc' = "export_raised"
                    /\ \E written \in SUBSET {OUT_CREATE} :
                           temp_files' = temp_files \cup {TMP_CREATE} \cup written
                    /\ \E r \in {create_validated_ifc(validations[1], elements)} :
                           /\ validations' = r.validations
                           /\ validated' = r.validations[1].elements
                           /\ summary' = r.validations[1].summary
                    /\ UNCHANGED reports
             [] fault = "read" ->
                    /\ pc' = "export_raised"
                    /\ temp_files' = temp_files \cup {TMP_CREATE, OUT_CREATE}
                    /\ \E r \in {create_validated_ifc(validations[1], elements)} :
                           /\ validations' = r.validations
                           /\ validated' = r.validations[1].elements
                           /\ summary' = r.validations[1].summary
                    /\ UNCHANGED reports
    /\ UNCHANGED <<impl, in_props, in_value, in_prefix, result, element, ev, elements,
                   filename, ifc_files, main_args, events>>

Next ==
    \/ ValidateIfcFile \/ AppValidateIfcFile
    \/ GenerateExcelReport \/ GenerateHtmlReport \/ AddValidationPsetToIfc
    \/ AppCreateExcelReport \/ AppCreateHtmlReport \/ AppShowResultsDialog
    \/ AppCreateValidatedIfc

Spec == Init /\ [][Next]_vars

-----------------------------------------------------------------------------
(* Properties of validate_element (SpecElem).                              *)

\* the element holds a property set named exactly A4_Utsp, or one holding a
\* property whose name starts with A4_Utsp_
Located(elem) ==
    \E i \in DOMAIN elem.IsDefinedBy :
        LET prop_def == elem.IsDefinedBy[i].RelatingPropertyDefinition
        IN  /\ elem.IsDefinedBy[i].is_a = "IfcRelDefinesByProperties"
            /\ prop_def.is_a = "IfcPropertySet"
            /\ \/ prop_def.Name = REQUIRED_PSET
               \/ \E j \in DOMAIN prop_def.HasProperties :
                      StartsWithA4(prop_def.HasProperties[j].Name)

ElementValidated == pc = "validated"

\* C1: validate_element returns the overall status "Mangler pset" if and
\* only if the element holds no property set named exactly A4_Utsp and none
\* holding a property whose name starts with A4_Utsp_, whatever the expected
\* prefix.
C1_ManglerIffNotLocated ==
    ElementValidated =>
        (ev.overall_status = STATUS_MANGLER <=> ~Located(element))

\* an element that has property sets, none of them located, was given the
\* status "Mangler pset"
C1_Witness ==
    /\ ElementValidated
    /\ ev.overall_status = STATUS_MANGLER
    /\ Len(ev.all_psets) > 0
    /\ in_prefix # None

\* C2: an element with no located property set never raises and yields a
\* record with error_count 1, warning_count 0, no per-property outcome, no
\* dimension outcome and has_pset false.
C2_MissingPsetRecord ==
    (pc # "input" /\ ~Located(element)) =>
        /\ ElementValidated
        /\ ev.error_count = 1
        /\ ev.warning_count = 0
        /\ ev.property_validations = EmptyDict
        /\ ev.properties_found = EmptyDict
        /\ ev.dimension_validation = None
        /\ ev.has_pset = FALSE
        /\ ev.pset_name_found = None

\* the record of an element whose only sets are a quantity set named A4_Utsp
\* and a property set without any A4_Utsp_ property
C2_Witness ==
    /\ ElementValidated
    /\ ~Located(element)
    /\ Len(element.IsDefinedBy) = 2
    /\ Len(ev.all_psets) = 1
    /\ ev.error_count = 1

\* C3: for an element whose property set was located, exactly or in a wrong
\* location, the overall status is "Feil" iff error_count > 0, "Advarsel"
\* iff error_count = 0 and warning_count > 0, and "OK" iff both counts are 0.
C3_StatusFromCounts ==
    (ElementValidated /\ Located(element)) =>
        /\ ev.overall_status = STATUS_FEIL <=> ev.error_count > 0
        /\ ev.overall_status = STATUS_ADVARSEL
               <=> (ev.error_count = 0 /\ ev.warning_count > 0)
        /\ ev.overall_status = STATUS_OK
               <=> (ev.error_count = 0 /\ ev.warning_count = 0)

\* an element in a wrong location with both errors and warnings is "Feil"
C3_Witness ==
    /\ ElementValidated
    /\ Located(element)
    /\ ~ev.has_pset
    /\ ev.error_count > 0
    /\ ev.warning_count > 0
    /\ ev.overall_status = STATUS_FEIL

\* every one of the 9 required properties has a passed outcome
RequiredAllPassed ==
    \A i \in DOMAIN REQUIRED_PROPERTIES :
        /\ REQUIRED_PROPERTIES[i] \in DOMAIN ev.property_validations
        /\ ev.property_validations[REQUIRED_PROPERTIES[i]].is_valid

\* no outcome recorded for the element, Funksjon's included, is a warning
NoWarningOutcome ==
    \A k \in DOMAIN ev.property_validations :
        ev.property_validations[k].severity # "warning"

\* C5 as stated: exact name, the 9 required outcomes passed and the dimension
\* check passed give the status OK.
C5_AllPassedIsOk ==
    (/\ ElementValidated
     /\ ev.has_pset
     /\ RequiredAllPassed
     /\ ev.dimension_validation.is_valid)
        => ev.overall_status = STATUS_OK

\* C5: an element whose property set has the exact name A4_Utsp, whose 9
\* required outcomes are passed, none of whose outcomes (Funksjon's
\* included) has severity warning, and whose dimension check passes, gets
\* the overall status OK.
C5_AllPassedNoWarningIsOk ==
    (/\ ElementValidated
     /\ ev.has_pset
     /\ RequiredAllPassed
     /\ NoWarningOutcome
     /\ ev.dimension_validation.is_valid)
        => ev.overall_status = STATUS_OK

\* such an element, with a Funksjon that is validated too, is OK
C5_Witness ==
    /\ ElementValidated
    /\ ev.has_pset
    /\ RequiredAllPassed
    /\ NoWarningOutcome
    /\ P_Funksjon \in DOMAIN ev.property_validations
    /\ ev.dimension_validation.is_valid
    /\ ev.overall_status = STATUS_OK

-----------------------------------------------------------------------------
(* Properties of calculate_summary (Spec).                                 *)

FileValidated == pc = "file_validated"

\* C4: after calculate_summary the four status counts partition the
\* elements: ok + feil + advarsel + mangler_pset = total = the number of
\* elements of the sequence.
C4_SummaryPartition ==
    FileValidated =>
        /\ summary.ok + summary.feil + summary.advarsel + summary.mangler_pset
               = summary.total
        /\ summary.total = Len(validated)
        /\ summary.total = Len(elements)

\* a file of two elements, one without the property set and one with a
\* warning
C4_Witness ==
    /\ FileValidated
    /\ summary.total = 2
    /\ summary.mangler_pset = 1
    /\ summary.advarsel = 1

-----------------------------------------------------------------------------
(* SpecVal: each property validator applied to one raw value.              *)

\* the raw values drawn: absent, texts, numbers (non-finite ones included)
\* and booleans
RawValues ==
    {None, VInf, VNaN, VNegZero, VBool(TRUE), VBool(FALSE),
     VFloat(30), VFloat(-5), VFloat(-15), VFloat(5)}
    \cup {VInt(n) : n \in (0 - MaxNum)..MaxNum}
    \cup {VStr(s) : s \in
            {<<>>, <<" ">>, <<"0">>, <<"4", "2">>, <<" ", "1", "2", " ">>, <<"3", ".", "0">>, <<" ", "3", ".", "0", " ">>, <<"-", "1">>, <<"-", "0", ".", "5">>,
             <<"-", "1", ".", "5">>, <<"+", "5">>, <<".", "5">>, <<"5", ".">>, <<"a", "b", "c">>, <<"1", "a">>, <<"-">>, <<"i", "n", "f">>, <<"-", "i", "n", "f">>,
             <<"I", "n", "f", "i", "n", "i", "t", "y">>, <<"n", "a", "n">>, <<"U+0663">>,
             <<"J", "a">>, <<"N", "e", "i">>, <<" ", "J", "a", " ">>, <<"N", "e", "i", "\t">>, <<"j", "a">>, <<"T", "r", "u", "e">>, <<"1">>,
             <<"B", "r", "a", "n", "n">>, <<"B", "r", "a", "n", "n", ",", " ", "L", "y", "d">>, <<" ", "B", "æ", "r", "i", "n", "g", " ", ",", "V", "a", "n", "n", "t", "e", "t", "t", "i", "n", "g">>, <<"B", "r", "a", "n", "n", ",">>, <<",">>,
             <<"B", "r", "a", "n", "n", ",", " ", ",", "L", "y", "d">>, <<"b", "r", "a", "n", "n">>, <<"B", "r", "a", "n", "n", ",", "S", "i", "k", "r", "i", "n", "g", ",", " ", "X">>, <<"B", "r", "a", "n", "n", ";", "L", "y", "d">>,
             <<"P", "r", "o", "v", "i", "s", "i", "o", "n", "F", "o", "r", "V", "o", "i", "d">>, <<"U", "t", "s", "p", "a", "r", "i", "n", "g">>, <<"F", "a", "s", "e", " ", "1">>, <<"G", "o", "d", "k", "j", "e", "n", "t">>,
             <<"0", "1", ".", "0", "1", ".", "2", "0", "2", "4">>, <<"R", "I", "V", "_", "H", "u", "l", "l", "-", "1">>}}

InitVal ==
    /\ pc = "input" /\ impl = "none"
    /\ in_value \in RawValues
    /\ in_prefix = None
    /\ result = NoResult
    /\ IdleDims /\ IdleElement /\ IdleFile

\* the name of the validator PROPERTY_VALIDATORS holds under prop_name
ValidatorLabel(prop_name) ==
    CASE prop_name = P_Kategori        -> "validate_kategori"
      [] prop_name = P_ID              -> "validate_id"
      [] prop_name = P_Utsparingstype  -> "validate_utsparingstype"
      [] prop_name = P_Tetting         -> "validate_tetting"
      [] prop_name = P_Funksjon        -> "validate_funksjon"
      [] prop_name = P_Fase            -> "validate_fase"
      [] prop_name = P_Status          -> "validate_status"
      [] prop_name = P_Rev             -> "validate_rev"
      [] prop_name = P_RevDato         -> "validate_rev_dato"
      [] prop_name = P_RevBeskrivelse  -> "validate_rev_beskrivelse"

\* PROPERTY_VALIDATORS[prop_name](value), for any of its ten entries
CallValidator ==
    /\ pc = "input"
    /\ \E prop_name \in ValidatorNames :
           /\ pc' = ValidatorLabel(prop_name)
           /\ result' = PROPERTY_VALIDATORS(prop_name, in_value)
    /\ impl' = "batch"
    /\ UNCHANGED <<in_props, in_value, in_prefix, element, ev, elements, validated, summary,
                 filename, temp_files,
                 ifc_files, main_args, validations, events, reports>>

\* the same call on app.py's copies
CallAppValidator ==
    /\ pc = "input"
    /\ \E prop_name \in ValidatorNames :
           /\ pc' = ValidatorLabel(prop_name)
           /\ result' = app_PROPERTY_VALIDATORS(prop_name, in_value)
    /\ impl' = "app"
    /\ UNCHANGED <<in_props, in_value, in_prefix, element, ev, elements, validated, summary,
                 filename, temp_files,
                 ifc_files, main_args, validations, events, reports>>

NextVal == CallValidator \/ CallAppValidator

SpecVal == InitVal /\ [][NextVal]_vars

-----------------------------------------------------------------------------
(* Properties of the validators (SpecVal).                                 *)

RevCalled == pc = "validate_rev"

\* the trimmed text of the value
Text(v) == Strip(PyStr(v))

OnlyDigits(s) == s # <<>> /\ \A i \in DOMAIN s : s[i] \in DigitSet

\* the value parses as a number whose truncation to an integer is >= 0, or
\* is negative
TruncNonNeg(v) ==
    PyFloat(v).kind = "fin" /\ (~PyFloat(v).neg \/ PyFloat(v).zero_int)

TruncNeg(v) ==
    PyFloat(v).kind = "fin" /\ PyFloat(v).neg /\ ~PyFloat(v).zero_int

\* C11: validate_rev returns a passed outcome iff the value is present,
\* non-empty, and its trimmed text is only digits or it parses as a number
\* whose truncation to an integer is >= 0; absent, empty, non-numeric text
\* and negative integers get an error outcome; and no value that the digit
\* pattern accepts is one that the numeric path finds negative.
C11_RevPassesIffNonNegative ==
    RevCalled =>
        /\ result.is_valid <=>
               (/\ in_value # None
                /\ Text(in_value) # <<>>
                /\ (OnlyDigits(Text(in_value)) \/ TruncNonNeg(in_value)))
        /\ (\/ in_value = None
            \/ Text(in_value) = <<>>
            \/ (PyFloat(in_value).kind = "ValueError" /\ ~OnlyDigits(Text(in_value)))
            \/ TruncNeg(in_value))
               => (~result.is_valid /\ result.severity = "error")
        /\ (in_value # None /\ OnlyDigits(Text(in_value))) => ~TruncNeg(in_value)

\* a text that is not only digits passed through the numeric path
C11_Witness ==
    /\ RevCalled
    /\ in_value.t = "str"
    /\ ~OnlyDigits(Text(in_value))
    /\ PyFloat(in_value).neg
    /\ result.is_valid

\* C12: whatever the raw value, every property validator returns a
\* ValidationResult; none raises.
C12_NoValidatorRaises ==
    pc # "input" => result.severity # "raised"

-----------------------------------------------------------------------------
(* Properties of the counting in validate_element (SpecElem).              *)

\* the outcome recorded for the i-th required property
RequiredOutcome(i) == ev.property_validations[REQUIRED_PROPERTIES[i]]

RequiredErrors ==
    Cardinality({i \in DOMAIN REQUIRED_PROPERTIES :
                    ~RequiredOutcome(i).is_valid /\ RequiredOutcome(i).severity = "error"})

RequiredWarnings ==
    Cardinality({i \in DOMAIN REQUIRED_PROPERTIES :
                    RequiredOutcome(i).severity = "warning"})

FunksjonWarnings ==
    IF P_Funksjon \in DOMAIN ev.property_validations
       /\ ev.property_validations[P_Funksjon].severity = "warning"
    THEN 1 ELSE 0

DimensionErrors == IF ev.dimension_validation.is_valid THEN 0 ELSE 1

WrongLocationWarnings == IF ev.has_pset THEN 0 ELSE 1

\* C13: over the 9 required properties each outcome adds to at most one
\* counter: a failed outcome of severity error adds 1 to error_count, an
\* outcome of severity warning adds 1 to warning_count whether it passed or
\* not, and every other outcome adds nothing; the rest of the counts is the
\* dimension error, Funksjon's warning and the wrong-location warning.
C13_TallyOfRequired ==
    (ElementValidated /\ Located(element)) =>
        /\ ev.error_count = RequiredErrors + DimensionErrors
        /\ ev.warning_count = RequiredWarnings + FunksjonWarnings + WrongLocationWarnings

\* an element in A4_Utsp whose only counted outcome is a warning that passed
C13_Witness ==
    /\ ElementValidated
    /\ ev.has_pset
    /\ \E i \in DOMAIN REQUIRED_PROPERTIES :
           RequiredOutcome(i).is_valid /\ RequiredOutcome(i).severity = "warning"
    /\ ev.warning_count = 1
    /\ ev.error_count = 0

-----------------------------------------------------------------------------
(* Properties of the location and of the merged values (SpecElem).         *)

\* the indices of the element's associations that are property sets
PropertySetsOf(elem) ==
    {i \in DOMAIN elem.IsDefinedBy :
        /\ elem.IsDefinedBy[i].is_a = "IfcRelDefinesByProperties"
        /\ elem.IsDefinedBy[i].RelatingPropertyDefinition.is_a = "IfcPropertySet"}

PropertiesOf(elem, i) == elem.IsDefinedBy[i].RelatingPropertyDefinition.HasProperties

\* a property set of the element is named exactly A4_Utsp
ExactNamed(elem) ==
    \E i \in PropertySetsOf(elem) :
        elem.IsDefinedBy[i].RelatingPropertyDefinition.Name = REQUIRED_PSET

\* C14: when the located property set is not named exactly A4_Utsp,
\* validate_element adds exactly one to warning_count on top of the property
\* warnings, so the element is never OK and has_pset is false.
C14_WrongLocationWarning ==
    (ElementValidated /\ Located(element) /\ ~ExactNamed(element)) =>
        /\ ev.warning_count = RequiredWarnings + FunksjonWarnings + 1
        /\ ev.overall_status # STATUS_OK
        /\ ev.has_pset = FALSE

\* a complete and valid property set under another name: the one warning is
\* the wrong location
C14_Witness ==
    /\ ElementValidated
    /\ Located(element) /\ ~ExactNamed(element)
    /\ RequiredWarnings + FunksjonWarnings = 0
    /\ ev.error_count = 0
    /\ ev.warning_count = 1
    /\ ev.overall_status = STATUS_ADVARSEL

\* C15: in every order of the associations, the found location is A4_Utsp
\* if and only if some property set is named exactly A4_Utsp; a
\* wrong-location name is returned only when none is.
C15_ExactNameWins ==
    ElementValidated =>
        /\ ExactNamed(element) <=> ev.pset_name_found = VStr(REQUIRED_PSET)
        /\ (ev.pset_name_found # None /\ ev.pset_name_found # VStr(REQUIRED_PSET))
               => (Located(element) /\ ~ExactNamed(element))

\* the exact-named set comes first and a set with A4_Utsp_ properties under
\* another name follows it
C15_Witness ==
    /\ ElementValidated
    /\ Len(element.IsDefinedBy) = 2
    /\ PropertySetsOf(element) = {1, 2}
    /\ element.IsDefinedBy[1].RelatingPropertyDefinition.Name = REQUIRED_PSET
    /\ element.IsDefinedBy[2].RelatingPropertyDefinition.Name # REQUIRED_PSET
    /\ \E j \in DOMAIN PropertiesOf(element, 2) :
           StartsWithA4(PropertiesOf(element, 2)[j].Name)
    /\ ev.pset_name_found = VStr(REQUIRED_PSET)

\* the places <<i, j>> of the properties called name in the property sets
PlacesOf(elem, name) ==
    UNION {{<<i, j>> : j \in {k \in DOMAIN PropertiesOf(elem, i) :
                                  PropertiesOf(elem, i)[k].Name = name}} :
              i \in PropertySetsOf(elem)}

\* the last of them in association order
LastPlace(elem, name) ==
    CHOOSE pl \in PlacesOf(elem, name) :
        \A q \in PlacesOf(elem, name) :
            q[1] < pl[1] \/ (q[1] = pl[1] /\ q[2] <= pl[2])

\* the names kept: those starting with A4_Utsp_ and the known ones
KeptNames(elem) ==
    {name \in UNION {{PropertiesOf(elem, i)[j].Name : j \in DOMAIN PropertiesOf(elem, i)} :
                        i \in PropertySetsOf(elem)} :
        StartsWithA4(name) \/ InSeq(name, ALL_PROPERTIES)}

MergedValue(elem, name) ==
    PropertiesOf(elem, LastPlace(elem, name)[1])[LastPlace(elem, name)[2]].NominalValue

\* C16: the values of every encountered property set are merged into one
\* mapping by property name, in association order; for a name in several
\* sets the value of the last set is the one returned, and the one that the
\* required property's validator is given.
C16_MergedLastWins ==
    (ElementValidated /\ Located(element)) =>
        /\ DOMAIN ev.properties_found = KeptNames(element)
        /\ \A name \in KeptNames(element) :
               ev.properties_found[name] = MergedValue(element, name)
        /\ \A i \in DOMAIN REQUIRED_PROPERTIES :
               REQUIRED_PROPERTIES[i] \in KeptNames(element) =>
                   RequiredOutcome(i) =
                       IF impl = "batch"
                       THEN RequiredResult(REQUIRED_PROPERTIES[i],
                                MergedValue(element, REQUIRED_PROPERTIES[i]), in_prefix)
                       ELSE app_RequiredResult(REQUIRED_PROPERTIES[i],
                                MergedValue(element, REQUIRED_PROPERTIES[i]), in_prefix)

\* two sets hold A4_Utsp_ID with different values, and the second one's is
\* returned
C16_Witness ==
    /\ ElementValidated
    /\ Len(element.IsDefinedBy) = 2
    /\ PlacesOf(element, P_ID) # {}
    /\ \E p1, p2 \in PlacesOf(element, P_ID) :
           /\ p1[1] = 1 /\ p2[1] = 2
           /\ PropertiesOf(element, 1)[p1[2]].NominalValue
                  # PropertiesOf(element, 2)[p2[2]].NominalValue
           /\ ev.properties_found[P_ID] = PropertiesOf(element, 2)[p2[2]].NominalValue

-----------------------------------------------------------------------------
(* Properties of validate_funksjon and validate_tetting (SpecVal).         *)

FunksjonCalled == pc = "validate_funksjon"

\* the comma-separated tokens of the value's trimmed text, each trimmed
Tokens(v) ==
    {Strip(Split(Text(v), ",")[i]) : i \in DOMAIN Split(Text(v), ",")}

InfoOutcome == result.is_valid /\ result.severity = "info"
WarningOutcome == result.is_valid /\ result.severity = "warning"

\* C17 as stated: for a non-empty value, any token that is not one of the
\* four functions gives passed with severity warning, otherwise a passed OK
\* outcome; absent or empty gives passed with severity info.
C17_AnyUnknownTokenWarns ==
    FunksjonCalled =>
        IF IsBlank(in_value) THEN InfoOutcome
        ELSE IF \E tok \in Tokens(in_value) : tok \notin VALID_FUNKSJON
        THEN WarningOutcome
        ELSE result = OK_RESULT

\* C17: for a non-empty Funksjon value, validate_funksjon splits on commas
\* and trims each token; if any non-empty token is not one of Bæring,
\* Vanntetting, Brann, Lyd the outcome is passed with severity warning,
\* otherwise it is a passed OK outcome (empty tokens are skipped); an absent
\* or empty value gives passed with severity info.
C17_UnknownNonEmptyTokenWarns ==
    FunksjonCalled =>
        IF IsBlank(in_value) THEN InfoOutcome
        ELSE IF \E tok \in Tokens(in_value) : tok # <<>> /\ tok \notin VALID_FUNKSJON
        THEN WarningOutcome
        ELSE result = OK_RESULT

\* a value with an empty token and two known ones is OK
C17_Witness ==
    /\ FunksjonCalled
    /\ ~IsBlank(in_value)
    /\ <<>> \in Tokens(in_value)
    /\ Cardinality(Tokens(in_value)) = 3
    /\ result = OK_RESULT

TettingCalled == pc = "validate_tetting"

\* C18 as stated: every boolean passes; a value that is not a boolean
\* passes only when it is exactly "Ja" or "Nei"; every other value is an
\* error.
C18_ExactlyJaNei ==
    TettingCalled =>
        /\ result.is_valid <=>
               (in_value.t = "bool" \/ (in_value.t = "str" /\ in_value.s \in VALID_TETTING_STR))
        /\ ~result.is_valid => result.severity = "error"

\* C18: validate_tetting passes every native boolean and, for a value that
\* is not a boolean, passes only when its text with surrounding whitespace
\* trimmed is exactly "Ja" or "Nei"; every other value, numbers such as 1
\* or 0 and absent and empty included, is an error.
C18_TrimmedJaNei ==
    TettingCalled =>
        /\ result.is_valid <=>
               (in_value.t = "bool" \/ (in_value # None /\ Text(in_value) \in VALID_TETTING_STR))
        /\ ~result.is_valid => result.severity = "error"

\* a text that is "Ja" or "Nei" only once trimmed passes
C18_Witness ==
    /\ TettingCalled
    /\ in_value.t = "str"
    /\ in_value.s \notin VALID_TETTING_STR
    /\ Text(in_value) \in VALID_TETTING_STR
    /\ result.is_valid

-----------------------------------------------------------------------------
(* SpecPrefix: extract_file_prefix applied to a file name.                 *)

\* number of underscore-delimited tokens of the names drawn
MaxTokens == 3

NameTokens == {<<"A", "4">>, <<"R", "I", "V">>, <<"R", "I", "E">>, <<"R", "I", "V", "A">>, <<"r", "i", "v">>, <<"U", "t", "s", "p">>, <<>>}

\* '_'.join(parts)
RECURSIVE JoinUnderscore(_)
JoinUnderscore(parts) ==
    IF parts = <<>> THEN <<>>
    ELSE IF Len(parts) = 1 THEN parts[1]
    ELSE parts[1] \o <<"_">> \o JoinUnderscore(Tail(parts))

PrefixFileNames ==
    {JoinUnderscore(parts) \o suffix :
        parts \in SeqsUpTo(NameTokens, MaxTokens) \ {<<>>},
        suffix \in {<<".", "i", "f", "c">>, <<>>, <<".", "v", "2", ".", "i", "f", "c">>}}

InitPrefix ==
    /\ pc = "input" /\ impl = "none"
    /\ filename \in PrefixFileNames
    /\ in_prefix = None
    /\ result = NoResult
    /\ elements = <<>> /\ validated = <<>> /\ summary = EmptySummary
    /\ temp_files = {}
    /\ IdleDims /\ IdleRules /\ IdleElement
    /\ IdleMain /\ NoReports

ExtractFilePrefix ==
    /\ pc = "input"
    /\ pc' = "extract_file_prefix" /\ impl' = "batch"
    /\ in_prefix' = extract_file_prefix(filename)
    /\ UNCHANGED <<in_props, in_value, result, element, ev, elements, validated, summary,
                   filename, temp_files,
                 ifc_files, main_args, validations, events, reports>>

AppExtractFilePrefix ==
    /\ pc = "input"
    /\ pc' = "extract_file_prefix" /\ impl' = "app"
    /\ in_prefix' = app_extract_file_prefix(filename)
    /\ UNCHANGED <<in_props, in_value, result, element, ev, elements, validated, summary,
                   filename, temp_files,
                 ifc_files, main_args, validations, events, reports>>

NextPrefix == ExtractFilePrefix \/ AppExtractFilePrefix

SpecPrefix == InitPrefix /\ [][NextPrefix]_vars

PrefixCalled == pc = "extract_file_prefix"

\* the underscore-delimited tokens of the stem that are discipline codes
CodePlaces(name) ==
    {i \in DOMAIN Split(Stem(name), "_") : Split(Stem(name), "_")[i] \in DISCIPLINE_CODES}

\* C19: in both entry points extract_file_prefix returns the first
\* underscore-delimited token of the stem that is RIV, RIE or RIVA, and
\* returns None only when no token is one of them.
C19_FirstCodeOfStem ==
    PrefixCalled =>
        IF CodePlaces(filename) = {} THEN in_prefix = None
        ELSE in_prefix = VStr(Split(Stem(filename), "_")[
                             CHOOSE i \in CodePlaces(filename) :
                                 \A j \in CodePlaces(filename) : i <= j])

-----------------------------------------------------------------------------
(* Properties of the temporary files of app.py (Spec).                     *)

\* C20: after app.validate_ifc_file or app.create_validated_ifc ends,
\* whether it returned or the model load, the validation or the export
\* raised, no temporary file that the call created remains.
C20_NoTempFileRemains ==
    (impl = "app" /\ pc # "input") => temp_files = {}

-----------------------------------------------------------------------------
(* SpecMain: main of validate_utsparinger.py on the files of the command   *)
(* line.                                                                   *)

MaxFiles == 2

\* the files drawn: the name, whether ifcopenshell.open reads it, and its
\* IfcBuildingElementProxy elements
MainFiles ==
    {[name |-> <<"A", "4", "_", "R", "I", "V", "_", "U", "t", "s", "p", "a", "r", "i", "n", "g", "e", "r", ".", "i", "f", "c">>, loads |-> TRUE,
      elements |-> <<[GlobalId |-> 1,
                      IsDefinedBy |-> <<Pset(REQUIRED_PSET, PropsFrom(FullProps, 1))>>]>>],
     [name |-> <<"A", "4", "_", "R", "I", "E", "_", "U", "t", "s", "p", "a", "r", "i", "n", "g", "e", "r", ".", "i", "f", "c">>, loads |-> TRUE,
      elements |-> <<[GlobalId |-> 1,
                      IsDefinedBy |-> <<Pset(PSET_X, PropsFrom(FullProps, 1))>>],
                     [GlobalId |-> 2, IsDefinedBy |-> <<>>]>>],
     [name |-> <<"m", "o", "d", "e", "l", "l", ".", "i", "f", "c">>, loads |-> FALSE, elements |-> <<>>],
     [name |-> <<"A", "4", "_", "R", "I", "V", "_", "r", "e", "v", ".", "i", "f", "c">>, loads |-> TRUE,
      elements |-> <<[GlobalId |-> 1,
                      IsDefinedBy |-> <<Pset(REQUIRED_PSET,
                          PropsFrom(Changed(FullProps, P_Rev, VInf), 1))>>]>>]}

\* --no-excel, --no-html, --no-ifc
MainArgs == [no_excel : BOOLEAN, no_html : BOOLEAN, no_ifc : BOOLEAN]

Event(what, file) == [what |-> what, file |-> file]

\* the annotated models written so far
IfcDone == Cardinality({p \in DOMAIN events : events[p].what = "add_validation_pset_to_ifc"})

InitMain ==
    /\ pc = "input" /\ impl = "none"
    /\ ifc_files \in SeqsUpTo(MainFiles, MaxFiles)
    /\ main_args \in MainArgs
    /\ validations = <<>> /\ events = <<>> /\ NoReports
    /\ elements = <<>> /\ validated = <<>> /\ summary = EmptySummary
    /\ filename = <<>> /\ temp_files = {}
    /\ in_prefix = None /\ result = NoResult
    /\ IdleDims /\ IdleRules /\ IdleElement

\* `if not ifc_files: print(...); return`
MainNoFiles ==
    /\ pc = "input" /\ ifc_files = <<>>
    /\ pc' = "main_returned" /\ impl' = "batch"
    /\ UNCHANGED <<in_props, in_value, in_prefix, result, element, ev, elements, validated,
                   summary, filename, temp_files, ifc_files, main_args, validations, events,
                   reports>>

MainValidateFile_CatchAndReport ==
    /\ pc \in {"input", "main_validating"}
    /\ Len(validations) < Len(ifc_files)
    /\ impl' = "batch"
    /\ \E k \in {Len(validations) + 1} :
           IF ~ifc_files[k].loads
           THEN /\ events' = Append(events, Event("load_raised", k))
                /\ pc' = IF validations = <<>> THEN "main_raised" ELSE "main_excel"
                /\ UNCHANGED validations
           ELSE \E rs \in {ValidateElements(ifc_files[k].elements,
                                            extract_file_prefix(ifc_files[k].name))} :
                    IF \A i \in DOMAIN rs : ExceptionOf(rs[i]) = "none"
                    THEN /\ validations' = Append(validations,
                                FileValidation(ifc_files[k].name, Len(ifc_files[k].elements), rs))
                         /\ events' = events \o <<Event("load", k), Event("validated", k)>>
                         /\ pc' = IF k = Len(ifc_files) THEN "main_excel" ELSE "main_validating"
                    ELSE /\ events' = events \o <<Event("load", k), Event("validation_raised", k)>>
                         /\ pc' = "main_raised"
                         /\ UNCHANGED validations
    /\ UNCHANGED <<in_props, in_value, in_prefix, result, element, ev, elements, validated,
                   summary, filename, temp_files, ifc_files, main_args, reports>>

\* one pass of `for ifc_file in ifc_files`: validate_ifc_file loads the
\* model, validates it and the FileValidation is appended; an exception of
\* ifcopenshell.open or of a validator leaves main
MainValidateFile ==
    /\ pc \in {"input", "main_validating"}
    /\ Len(validations) < Len(ifc_files)
    /\ impl' = "batch"
    /\ \E k \in {Len(validations) + 1} :
           IF ~ifc_files[k].loads
           THEN /\ events' = Append(events, Event("load_raised", k))
                /\ pc' = "main_raised"
                /\ UNCHANGED validations
           ELSE \E rs \in {ValidateElements(ifc_files[k].elements,
                                            extract_file_prefix(ifc_files[k].name))} :
                    IF \A i \in DOMAIN rs : ExceptionOf(rs[i]) = "none"
                    THEN /\ validations' = Append(validations,
                                FileValidation(ifc_files[k].name, Len(ifc_files[k].elements), rs))
                         /\ events' = events \o <<Event("load", k), Event("validated", k)>>
                         /\ pc' = IF k = Len(ifc_files) THEN "main_excel" ELSE "main_validating"
                    ELSE /\ events' = events \o <<Event("load", k), Event("validation_raised", k)>>
                         /\ pc' = "main_raised"
                         /\ UNCHANGED validations
    /\ UNCHANGED <<in_props, in_value, in_prefix, result, element, ev, elements, validated,
                   summary, filename, temp_files, ifc_files, main_args, reports>>

MainGenerateExcel_InLoop ==
    /\ pc \in {"main_validating", "main_excel"}
    /\ pc' = IF pc = "main_excel" THEN "main_html" ELSE pc
    /\ IF ~main_args.no_excel
       THEN \E r \in {generate_excel_report(validations)} :
                /\ reports' = (<<"generate_excel_report", 0>> :> r.output) @@ reports
                /\ validations' = r.validations
                /\ events' = Append(events, Event("generate_excel_report", 0))
       ELSE UNCHANGED <<reports, validations, events>>
    /\ UNCHANGED <<impl, in_props, in_value, in_prefix, result, element, ev, elements, validated,
                   summary, filename, temp_files, ifc_files, main_args>>

\* `if not args.no_excel: generate_excel_report(validations, ...)`, after the
\* loop over the files
MainGenerateExcel ==
    /\ pc = "main_excel"
    /\ pc' = "main_html"
    /\ IF ~main_args.no_excel
       THEN \E r \in {generate_excel_report(validations)} :
                /\ reports' = (<<"generate_excel_report", 0>> :> r.output) @@ reports
                /\ validations' = r.validations
                /\ events' = Append(events, Event("generate_excel_report", 0))
       ELSE UNCHANGED <<reports, validations, events>>
    /\ UNCHANGED <<impl, in_props, in_value, in_prefix, result, element, ev, elements, validated,
                   summary, filename, temp_files, ifc_files, main_args>>

\* `if not args.no_html: generate_html_report(validations, ...)`
MainGenerateHtml ==
    /\ pc = "main_html"
    /\ pc' = IF main_args.no_ifc THEN "main_done" ELSE "main_ifc"
    /\ IF ~main_args.no_html
       THEN \E r \in {generate_html_report(validations)} :
                /\ reports' = (<<"generate_html_report", 0>> :> r.output) @@ reports
                /\ validations' = r.validations
                /\ events' = Append(events, Event("generate_html_report", 0))
       ELSE UNCHANGED <<reports, validations, events>>
    /\ UNCHANGED <<impl, in_props, in_value, in_prefix, result, element, ev, elements, validated,
                   summary, filename, temp_files, ifc_files, main_args>>

\* one pass of `for validation in validations: add_validation_pset_to_ifc(...)`,
\* which opens the file of the validation again
MainAddValidationPset ==
    /\ pc = "main_ifc"
    /\ \E j \in {IfcDone + 1} :
       \E r \in {add_validation_pset_to_ifc(validations[j], ifc_files[j].elements)} :
           /\ reports' = (<<"add_validation_pset_to_ifc", j>> :> r.output) @@ reports
           /\ validations' = [validations EXCEPT ![j] = r.validations[1]]
           /\ events' = events \o <<Event("reload", j), Event("add_validation_pset_to_ifc", j)>>
           /\ pc' = IF j = Len(validations) THEN "main_done" ELSE "main_ifc"
    /\ UNCHANGED <<impl, in_props, in_value, in_prefix, result, element, ev, elements, validated,
                   summary, filename, temp_files, ifc_files, main_args>>

NextMain ==
    \/ MainNoFiles \/ MainValidateFile
    \/ MainGenerateExcel \/ MainGenerateHtml \/ MainAddValidationPset

SpecMain == InitMain /\ [][NextMain]_vars

-----------------------------------------------------------------------------
(* Properties of main (SpecMain).                                          *)

\* event p is the generation of a report that covers file k: the spreadsheet
\* and the HTML report cover every file, an annotated model covers its own
ReportOf(p, k) ==
    \/ events[p].what \in {"generate_excel_report", "generate_html_report"}
    \/ events[p].what = "add_validation_pset_to_ifc" /\ events[p].file = k

IsReport(p) == \E k \in DOMAIN ifc_files : ReportOf(p, k)

\* event p is validate_ifc_file opening the model of file k
LoadOf(p, k) == events[p].what \in {"load", "load_raised"} /\ events[p].file = k

Before(q, p) == q \in DOMAIN events /\ q < p

SomeReportAsked == ~main_args.no_excel \/ ~main_args.no_html \/ ~main_args.no_ifc

\* C21 as stated: when reports are asked for, the reports of each file are
\* generated before the model of the next file is loaded.
C21_ReportsBeforeNextLoad ==
    SomeReportAsked =>
        \A p \in DOMAIN events : \A k \in DOMAIN ifc_files :
            (k > 1 /\ LoadOf(p, k)) =>
                \E q \in DOMAIN events : Before(q, p) /\ ReportOf(q, k - 1)

\* C21, amended: the batch runner loads and fully validates each file before
\* it loads the model of the next file (the validation of a file directly
\* follows its load), and it generates reports only after every file has
\* been validated: the spreadsheet, then the HTML report, then the annotated
\* models in file order.
C21_ValidatedBeforeNextLoadReportsLast ==
    /\ \A p \in DOMAIN events : \A k \in DOMAIN ifc_files :
           (k > 1 /\ LoadOf(p, k)) =>
               /\ p > 1
               /\ events[p - 1] = Event("validated", k - 1)
    /\ \A p \in DOMAIN events :
           events[p].what = "load" =>
               (p < Len(events) =>
                   events[p + 1].what \in {"validated", "validation_raised"}
                   /\ events[p + 1].file = events[p].file)
    /\ \A p \in DOMAIN events :
           IsReport(p) =>
               /\ \A k \in DOMAIN ifc_files :
                      \E q \in DOMAIN events : Before(q, p) /\ events[q] = Event("validated", k)
               /\ \A q \in DOMAIN events :
                      (q > p) => (events[q].what \notin {"load", "load_raised", "validated"})
    /\ \A p, q \in DOMAIN events :
           (p < q /\ IsReport(p) /\ IsReport(q)) =>
               \/ events[p].what = "generate_excel_report"
               \/ events[p].what = "generate_html_report"
                  /\ events[q].what = "add_validation_pset_to_ifc"
               \/ events[p].what = "add_validation_pset_to_ifc"
                  /\ events[q].what = "add_validation_pset_to_ifc"
                  /\ events[p].file < events[q].file

\* two files were validated and every report of both was generated
C21_Witness ==
    /\ pc = "main_done"
    /\ Len(ifc_files) = 2
    /\ \E p \in DOMAIN events : events[p] = Event("generate_excel_report", 0)
    /\ \E p \in DOMAIN events : events[p] = Event("generate_html_report", 0)
    /\ \E p \in DOMAIN events : events[p] = Event("add_validation_pset_to_ifc", 2)

\* C22: in the batch runner a file that ifcopenshell.open cannot read ends the
\* run at once: the failed load is the last thing that happens, no later file
\* is loaded or validated, and no report of any type is written, also for
\* the files validated before it.
C22_LoadFailureAbortsRun ==
    \A p \in DOMAIN events :
        events[p].what = "load_raised" =>
            /\ p = Len(events)
            /\ pc = "main_raised"
            /\ reports = <<>>
            /\ \A q \in DOMAIN events : ~IsReport(q)
            /\ \A q \in DOMAIN events : events[q].file <= events[p].file
            /\ Len(validations) = events[p].file - 1

\* the second file could not be read after the first one was validated
C22_Witness ==
    /\ pc = "main_raised"
    /\ events = <<Event("load", 1), Event("validated", 1), Event("load_raised", 2)>>
    /\ SomeReportAsked
    /\ Len(validations) = 1

-----------------------------------------------------------------------------
(* Properties of the report generators (Spec).                             *)

ReportGenerators ==
    {"generate_excel_report", "generate_html_report", "add_validation_pset_to_ifc",
     "create_excel_report", "create_html_report", "create_validated_ifc",
     "get_error_messages"}

\* C23: a call of a report generator (one that returns its report, and
\* create_validated_ifc also when it raises) leaves the FileValidation and
\* every ElementValidation of it as they were: statuses, counts, outcome
\* mappings, extracted values, pset-name lists and the summary.
C23_ReportsLeaveRecordsUnchanged ==
    [][(reports' # reports \/ pc' \in {"exported", "export_raised"}) =>
           /\ validations' = validations
           /\ validated' = validated
           /\ summary' = summary]_vars

\* every report of the interactive tool was generated for a file of two
\* elements with different statuses
C23_Witness ==
    /\ impl = "app" /\ pc = "exported"
    /\ DOMAIN reports = {"create_excel_report", "create_html_report",
                         "create_validated_ifc", "get_error_messages"}
    /\ Len(validated) = 2
    /\ validated[1].overall_status # validated[2].overall_status
    /\ validations[1].elements = validated

\* C24: validate_ifc_file gives exactly one ElementValidation per
\* IfcBuildingElementProxy of the model, in the order of the model (record i
\* carries the GlobalId of element i), and total_elements, the length of
\* the element list and summary.total are the same number.
C24_OneRecordPerElementInOrder ==
    validations # <<>> =>
        /\ Len(validations) = 1
        /\ Len(validations[1].elements) = Len(elements)
        /\ \A i \in DOMAIN elements :
               validations[1].elements[i].guid = elements[i].GlobalId
        /\ validations[1].total_elements = Len(validations[1].elements)
        /\ validations[1].summary.total = validations[1].total_elements
        /\ validations[1].filename = filename

\* a file of two elements was validated
C24_Witness ==
    /\ FileValidated
    /\ Len(elements) = 2
    /\ elements[1].GlobalId # elements[2].GlobalId
    /\ validations[1].total_elements = 2

-----------------------------------------------------------------------------
(* Properties of the optional property in validate_element (SpecElem).     *)

\* some property set of the element holds a property named A4_Utsp_Funksjon
FunksjonGiven(elem) ==
    \E i \in PropertySetsOf(elem) : \E j \in DOMAIN PropertiesOf(elem, i) :
        PropertiesOf(elem, i)[j].Name = P_Funksjon

\* what the copy that ran gives for a Funksjon value
FunksjonResult(value) ==
    IF impl = "batch" THEN validate_funksjon(value) ELSE app_validate_funksjon(value)

\* C25: validate_element runs the Funksjon validator only when the element
\* gives the property: without it no Funksjon outcome is recorded and the
\* counters are those of the required properties, the dimensions and the
\* location; with it the validator's outcome for the extracted value is
\* recorded and warning_count is one more exactly when that outcome's
\* severity is 'warning' (an 'info' outcome changes no counter, and no
\* Funksjon outcome changes error_count).
C25_FunksjonOnlyWhenPresent ==
    (ElementValidated /\ Located(element)) =>
        /\ (P_Funksjon \in DOMAIN ev.property_validations) <=> FunksjonGiven(element)
        /\ FunksjonGiven(element) =>
               ev.property_validations[P_Funksjon]
                   = FunksjonResult(MergedValue(element, P_Funksjon))
        /\ ev.warning_count - RequiredWarnings - WrongLocationWarnings =
               (IF FunksjonGiven(element)
                   /\ FunksjonResult(MergedValue(element, P_Funksjon)).severity = "warning"
                THEN 1 ELSE 0)
        /\ ev.error_count = RequiredErrors + DimensionErrors

\* Funksjon is present and empty: an info outcome is recorded and the element
\* is OK with both counters at 0
C25_Witness ==
    /\ ElementValidated
    /\ FunksjonGiven(element)
    /\ ev.property_validations[P_Funksjon].severity = "info"
    /\ ev.warning_count = 0 /\ ev.error_count = 0
    /\ ev.overall_status = STATUS_OK

-----------------------------------------------------------------------------
(* Properties of the recorded property-set names (SpecElem).               *)

\* the names of the element's property sets, in association order
RECURSIVE PsetNames(_)
PsetNames(definitions) ==
    IF definitions = <<>> THEN <<>>
    ELSE (IF Head(definitions).is_a = "IfcRelDefinesByProperties"
             /\ Head(definitions).RelatingPropertyDefinition.is_a = "IfcPropertySet"
          THEN <<Head(definitions).RelatingPropertyDefinition.Name>> ELSE <<>>)
         \o PsetNames(Tail(definitions))

\* the property sets that hold a property whose name starts with A4_Utsp_
HoldingA4(elem) ==
    {i \in PropertySetsOf(elem) :
        \E j \in DOMAIN PropertiesOf(elem, i) : StartsWithA4(PropertiesOf(elem, i)[j].Name)}

FirstHoldingA4(elem) ==
    CHOOSE i \in HoldingA4(elem) : \A k \in HoldingA4(elem) : i <= k

\* C26: the names of all property sets of the element are recorded, in
\* association order and whether or not a set matches, the sets after the
\* one that decided the found location included; when no set is named
\* A4_Utsp, the first set in association order that holds an A4_Utsp_
\* property gives the wrong-location name and a later one does not change it.
C26_AllNamesFirstWrongLocation ==
    ElementValidated =>
        /\ ev.all_psets = PsetNames(element.IsDefinedBy)
        /\ (Located(element) /\ ~ExactNamed(element)) =>
               ev.pset_name_found =
                   VStr(WrongLocation(element.IsDefinedBy[FirstHoldingA4(element)]
                                          .RelatingPropertyDefinition.Name))

\* two sets under different wrong names hold A4_Utsp_ properties: the first
\* gives the location and both names are recorded
C26_Witness ==
    /\ ElementValidated
    /\ HoldingA4(element) = {1, 2}
    /\ ~ExactNamed(element)
    /\ element.IsDefinedBy[1].RelatingPropertyDefinition.Name
           # element.IsDefinedBy[2].RelatingPropertyDefinition.Name
    /\ ev.pset_name_found =
           VStr(WrongLocation(element.IsDefinedBy[1].RelatingPropertyDefinition.Name))
    /\ Len(ev.all_psets) = 2

-----------------------------------------------------------------------------
(* The two copies of validate_element compared (SpecElem).                 *)

\* what the copy that did not run returns for the same element and prefix
OtherCopy(elem, expected_prefix) ==
    IF impl = "batch" THEN app_validate_element(elem, expected_prefix)
    ELSE validate_element(elem, expected_prefix)

\* C27: for every element and expected prefix the batch validate_element and
\* the one of app.py give the same overall status, error_count,
\* warning_count, has_pset, found location and validated property names
\* (and one raises exactly when the other does), also where the passed flag
\* of an outcome differs between them.
C27_CopiesAgree ==
    /\ ElementValidated =>
           \A other \in {OtherCopy(element, in_prefix)} :
               /\ ExceptionOf(other) = "none"
               /\ other.overall_status = ev.overall_status
               /\ other.error_count = ev.error_count
               /\ other.warning_count = ev.warning_count
               /\ other.has_pset = ev.has_pset
               /\ other.pset_name_found = ev.pset_name_found
               /\ DOMAIN other.property_validations = DOMAIN ev.property_validations
    /\ pc = "raised" =>
           \A other \in {OtherCopy(element, in_prefix)} : ExceptionOf(other) # "none"

\* the ID's prefix is not the expected one: the batch copy's outcome did not
\* pass, the app's did, and both count one warning
C27_Witness ==
    /\ ElementValidated /\ impl = "batch"
    /\ P_ID \in DOMAIN ev.property_validations
    /\ ~ev.property_validations[P_ID].is_valid
    /\ ev.property_validations[P_ID].severity = "warning"
    /\ app_validate_element(element, in_prefix).property_validations[P_ID].is_valid
    /\ ev.overall_status = STATUS_ADVARSEL

-----------------------------------------------------------------------------
(* Properties of the message aggregation of the reports (Spec).            *)

\* the entries of a message list that carry the given prefix
CountPrefixed(entries, prefix) ==
    Cardinality({i \in DOMAIN entries : entries[i].prefix = prefix})

\* a written message column agrees with the counts of the record it is about
MatchesCounts(written, ev_rec) ==
    /\ CountPrefixed(written.entries, "FEIL:") = ev_rec.error_count
    /\ CountPrefixed(written.entries, "ADVARSEL:") = ev_rec.warning_count
    /\ Len(written.entries) = ev_rec.error_count + ev_rec.warning_count
    /\ (written.text = "-") <=> (ev_rec.error_count = 0 /\ ev_rec.warning_count = 0)

\* the message list of the HTML report, which the page joins or shows as "-"
ListMatchesCounts(entries, ev_rec) ==
    /\ CountPrefixed(entries, "FEIL:") = ev_rec.error_count
    /\ CountPrefixed(entries, "ADVARSEL:") = ev_rec.warning_count
    /\ (entries = <<>>) <=> (ev_rec.error_count = 0 /\ ev_rec.warning_count = 0)

\* C28: in every report written, the messages of each element are exactly
\* error_count entries prefixed 'FEIL:' and warning_count entries prefixed
\* 'ADVARSEL:', and the text is '-' exactly when both counts are 0.
C28_MessagesMatchCounts ==
    \A j \in DOMAIN validated :
        /\ "generate_excel_report" \in DOMAIN reports =>
               MatchesCounts(reports["generate_excel_report"].sheets[1][j].Feilmeldinger,
                             validated[j])
        /\ "generate_html_report" \in DOMAIN reports =>
               ListMatchesCounts(reports["generate_html_report"][1].elements[j].errorMessages,
                                 validated[j])
        /\ "add_validation_pset_to_ifc" \in DOMAIN reports =>
               MatchesCounts(reports["add_validation_pset_to_ifc"][j].Feilmeldinger,
                             validated[j])
        /\ "create_excel_report" \in DOMAIN reports =>
               MatchesCounts(reports["create_excel_report"].all_rows[1][j].Feilmeldinger,
                             validated[j])
        /\ "create_html_report" \in DOMAIN reports =>
               MatchesCounts(reports["create_html_report"][1].elements[j].errors,
                             validated[j])
        /\ "get_error_messages" \in DOMAIN reports =>
               MatchesCounts(reports["get_error_messages"][1][j].Feil, validated[j])
        /\ "create_validated_ifc" \in DOMAIN reports =>
               MatchesCounts(reports["create_validated_ifc"][j].pset.Feilmeldinger,
                             validated[j])

\* the spreadsheet of a file was written whose first element has a warning
\* that passed and whose second has no message
C28_Witness ==
    /\ "generate_excel_report" \in DOMAIN reports
    /\ Len(validated) = 2
    /\ validated[1].error_count = 0 /\ validated[1].warning_count > 0
    /\ \E k \in DOMAIN validated[1].property_validations :
           /\ validated[1].property_validations[k].is_valid
           /\ validated[1].property_validations[k].severity = "warning"
    /\ CountPrefixed(reports["generate_excel_report"].sheets[1][1].Feilmeldinger.entries,
                     "ADVARSEL:") = validated[1].warning_count
    /\ validated[2].overall_status = STATUS_OK
    /\ reports["generate_excel_report"].sheets[1][2].Feilmeldinger.text = "-"

-----------------------------------------------------------------------------
(* Properties of the summary totals against the status counts (Spec).      *)

\* C29: in the summary of a validated file every OK element has 0 errors and
\* 0 warnings and every 'Mangler pset' element exactly 1 error, so
\* total_errors >= feil + mangler_pset, total_errors = 0 exactly when
\* feil = mangler_pset = 0, and total_warnings >= advarsel.
C29_TotalsConsistentWithStatusCounts ==
    validations # <<>> =>
        /\ summary = validations[1].summary
        /\ \A j \in DOMAIN validations[1].elements :
               /\ validations[1].elements[j].overall_status = STATUS_OK =>
                      /\ validations[1].elements[j].error_count = 0
                      /\ validations[1].elements[j].warning_count = 0
               /\ validations[1].elements[j].overall_status = STATUS_MANGLER =>
                      validations[1].elements[j].error_count = 1
        /\ summary.total_errors >= summary.feil + summary.mangler_pset
        /\ (summary.total_errors = 0) <=> (summary.feil = 0 /\ summary.mangler_pset = 0)
        /\ summary.total_warnings >= summary.advarsel

\* a file with an element without the set and an element with several
\* errors: the total of errors exceeds feil + mangler_pset
C29_Witness ==
    /\ FileValidated
    /\ summary.mangler_pset = 1 /\ summary.feil = 1
    /\ summary.total_errors > summary.feil + summary.mangler_pset
    /\ summary.total_warnings > summary.advarsel

-----------------------------------------------------------------------------
(* Properties of the located set against the summary (Spec).               *)

\* the elements of the file whose found location is a set under another name
WrongLocationElements ==
    {i \in DOMAIN elements :
        get_element_properties(elements[i]).pset_name_found
            \notin {None, VStr(REQUIRED_PSET)}}

\* C30: when get_element_properties locates no property set its merged
\* mapping is empty; has_pset holds exactly when the found location is
\* A4_Utsp; so in the summary has_pset + mangler_pset <= total, and the
\* difference is the number of wrong-location elements.
C30_LocationPartitionsSummary ==
    validations # <<>> =>
        /\ \A i \in DOMAIN elements :
               \A got \in {get_element_properties(elements[i])} :
                   /\ (got.pset_name_found = None) <=> ~Located(elements[i])
                   /\ got.pset_name_found = None => got.properties = EmptyDict
                   /\ validated[i].has_pset <=> got.pset_name_found = VStr(REQUIRED_PSET)
                   /\ validated[i].has_pset <=> ExactNamed(elements[i])
        /\ summary.has_pset + summary.mangler_pset <= summary.total
        /\ summary.total - (summary.has_pset + summary.mangler_pset)
               = Cardinality(WrongLocationElements)

\* a file of an element whose only set holds no A4_Utsp_ property and an
\* element with the properties in a set under another name
C30_Witness ==
    /\ FileValidated
    /\ Len(elements) = 2
    /\ elements[1].IsDefinedBy # <<>> /\ ~Located(elements[1])
    /\ validated[1].all_psets # <<>>
    /\ Located(elements[2]) /\ ~ExactNamed(elements[2])
    /\ summary.total = 2 /\ summary.has_pset = 0 /\ summary.mangler_pset = 1

====
